---- MODULE Spec2Model ----
(***************************************************************************)
(* The storage pipeline of emaildraft-storage: upload / download / delete  *)
(* / copy over the metadata tables (objects, chunks, buckets) and the IMAP *)
(* drafts folder, with content-addressed deduplication and the free-draft  *)
(* recycling pool (src/src/storage/pipeline.rs).                           *)
(*                                                                         *)
(* Every pipeline operation is one action: the S3 handlers call the       *)
(* pipeline under its mutex, and requests are taken one at a time.  An     *)
(* operation is computed by                                                *)
(* operators that thread a context record (the tables, the mailbox, the    *)
(* id and UID generators) through the handler's steps and return the SET   *)
(* of contexts the handler can end in: a query without ORDER BY may return *)
(* any matching row, the clock may read any value, and every DB round trip *)
(* and IMAP exchange may fail (an injected I/O fault, at most MaxFaults of *)
(* them in one behaviour).  A context also carries the provider calls the  *)
(* handler made, so a property of an operation is stated over the outcomes *)
(* the operation has from a reachable state.                               *)
(*                                                                         *)
(* UUIDs are compared for equality only.  Uuid::new_v4() is modelled as    *)
(* the least id that occurs neither in the state the operation started in  *)
(* nor among the ids it has drawn since: no part of the state can tell it  *)
(* from an id that was never used.                                         *)
(***************************************************************************)
EXTENDS Integers, Sequences, FiniteSets, TLC

\* ------------------------------------------------------------------ bounds
MaxLen == 2        \* longest payload, in bytes
MaxOps == 4        \* operations that write, in one behaviour
MaxFaults == 1     \* injected I/O faults in one behaviour

Bytes == {0, 1}
ChunkSizes == {1, 2}
UserBuckets == {[id |-> 1, name |-> "mybucket"]}
Keys == {"x", "y"}
\* The (content_type, user metadata) a PUT of each key carries: a key is always
\* PUT with the same headers, so only a copy brings other attributes to it.
UserAttrs == [x |-> [content_type |-> "text/plain", metadata |-> "m1"],
              y |-> [content_type |-> "image/png", metadata |-> "null"]]
\* low bits of the clock read by delete when it re-parents a row
Nanos == {0, 3}

Payloads == UNION {[1..n -> Bytes] : n \in 0..MaxLen}

VARIABLES
    chunkSize,   \* config.chunk_size_bytes(), fixed at construction
    objects,     \* table objects
    chunks,      \* table chunks
    buckets,     \* table buckets
    drafts,      \* messages resident in the drafts folder
    nextUid,     \* the UID the server assigns to the next APPEND
    faults,      \* injected I/O faults so far
    ops,         \* writing operations so far
    failed,      \* some operation has returned Err
    reqs,        \* the S3 requests in flight: handler, position, locals
    pipeline,    \* AppState.pipeline: the request holding the mutex, 0 when unlocked
    tasks,       \* the calls in flight on the mail provider: method, position
    session,     \* GmailProvider.session: the call holding the mutex, 0 when unlocked
    wire,        \* the IMAP commands sent so far, each with the call that sent it
    arg,         \* the argument of a function under study
    ret,         \* its result
    multipart_uploads,  \* table multipart_uploads
    multipart_parts,    \* table multipart_parts
    temp_files          \* the files under config.storage.temp_dir

storeVars == <<chunkSize, objects, chunks, buckets, drafts, nextUid, faults, ops, failed>>
handlerVars == <<reqs, pipeline>>
providerVars == <<tasks, session, wire>>
callVars == <<arg, ret>>
multipartVars == <<multipart_uploads, multipart_parts, temp_files>>
vars == <<storeVars, handlerVars, providerVars, callVars, multipartVars>>

Min(a, b) == IF a < b THEN a ELSE b

\* ----------------------------------------------------------------- hasher
\* A digest is modelled as an injective tagged encoding of its input.
Md5Hex(data) == <<5>> \o data
Sha256Hex(data) == <<256>> \o data
\* etag = format!("\"{}\"", hashes.md5); 34 is the ASCII double quote
ETag(data) == <<34>> \o Md5Hex(data) \o <<34>>

\* ---------------------------------------------------------------- chunker
\* A chunker that keeps only the full-size chunks: C19 must not survive it.
chunk_data_WholeOnly(data, S) ==
    [i \in 1..(Len(data) \div S) |->
        LET bytes == SubSeq(data, (i - 1) * S + 1, i * S)
        IN [index |-> i - 1, data |-> bytes, hash |-> Sha256Hex(bytes), size |-> Len(bytes)]]

\* data.chunks(chunk_size).enumerate(): chunk i covers [i*S, min((i+1)*S, N))
chunk_data(data, S) ==
    [i \in 1..((Len(data) + S - 1) \div S) |->
        LET bytes == SubSeq(data, (i - 1) * S + 1, Min(i * S, Len(data)))
        IN [index |-> i - 1, data |-> bytes, hash |-> Sha256Hex(bytes), size |-> Len(bytes)]]

\* --------------------------------------------------------------- contexts
IdsIn(os, cs, bs) ==
    {o.id : o \in os} \cup {x.id : x \in cs} \cup {x.object_id : x \in cs}
    \cup {b.id : b \in bs} \cup {o.bucket_id : o \in os}

Ctx0 ==
    [objects |-> objects, chunks |-> chunks, buckets |-> buckets, drafts |-> drafts,
     used |-> IdsIn(objects, chunks, buckets),
     nextUid |-> nextUid, faults |-> faults,
     calls |-> <<>>, err |-> FALSE, oid |-> 0, uid |-> 0, data |-> <<>>, bid |-> 0, rid |-> 0]

\* An injected fault of a DB round trip or an IMAP exchange.
CanFault(c) == c.faults < MaxFaults
Faulted(c) == [c EXCEPT !.faults = @ + 1, !.err = TRUE]
FaultOf(c) == IF CanFault(c) THEN {Faulted(c)} ELSE {}
\* An error the code raises itself (a constraint violation, bail!).
Raised(c) == [c EXCEPT !.err = TRUE]
\* Uuid::new_v4()
new_v4(c) == CHOOSE n \in 1..(Cardinality(c.used) + 1) :
                /\ n \notin c.used
                /\ \A m \in 1..(n - 1) : m \in c.used
Drawn(c, id) == [c EXCEPT !.used = @ \cup {id}]
Call(name, uid, idx, data) == [call |-> name, uid |-> uid, idx |-> idx, data |-> data]

\* --------------------------------------------------------- mail provider
MaxOf(S) == CHOOSE m \in S : \A x \in S : x <= m

\* APPEND, then SELECT and UID SEARCH SUBJECT "<first 100 chars>", then max.
\* A fault before or in APPEND stores nothing; one after it leaves the draft.
\* The server assigns increasing UIDs and the appended message matches its own
\* subject, so the largest matching UID is the largest UID of the folder.
create_draft(c, subject, attachment_data) ==
    LET c1 == [c EXCEPT !.calls = Append(@, Call("create_draft", 0, subject.chunk_idx, attachment_data))]
        appended == [c1 EXCEPT
            !.drafts = @ \cup {[uid |-> c1.nextUid, data |-> attachment_data, deleted |-> FALSE]},
            !.nextUid = @ + 1]
    IN FaultOf(c1) \cup FaultOf(appended)
       \cup {[appended EXCEPT !.uid = MaxOf({d.uid : d \in appended.drafts})]}

\* SELECT, UID FETCH uid BODY[], the application/octet-stream part.
get_draft(c, uid) ==
    LET c1 == [c EXCEPT !.calls = Append(@, Call("get_draft", uid, 0, <<>>))]
        found == {d \in c1.drafts : d.uid = uid}
    IN FaultOf(c1) \cup
       (IF found = {} THEN {Raised(c1)}
        ELSE {[c1 EXCEPT !.data = d.data] : d \in found})

\* SELECT, UID STORE uid +FLAGS (\Deleted), EXPUNGE (of every flagged message).
delete_draft(c, uid) ==
    LET c1 == [c EXCEPT !.calls = Append(@, Call("delete_draft", uid, 0, <<>>))]
        stored == [c1 EXCEPT !.drafts =
            {IF d.uid = uid THEN [d EXCEPT !.deleted = TRUE] ELSE d : d \in @}]
        expunged == [stored EXCEPT !.drafts = {d \in @ : ~d.deleted}]
    IN FaultOf(c1) \cup FaultOf(stored) \cup {expunged}

\* ------------------------------------------------------------- pipeline
I32Min == -2147483647 - 1

\* Bitwise exclusive or of two i32 values (two's complement: -1 is all ones).
RECURSIVE Xor(_, _)
Xor(a, b) ==
    IF a = 0 THEN b
    ELSE IF b = 0 THEN a
    ELSE IF a = -1 THEN -b - 1
    ELSE IF b = -1 THEN -a - 1
    ELSE (((a % 2) + (b % 2)) % 2) + 2 * Xor(a \div 2, b \div 2)

\* ((nanos as i32) ^ (chunk_record.draft_uid as i32)).abs(); nanos is the
\* clock already truncated to i32, and abs wraps at i32::MIN.
unique_index(nanos, draft_uid) ==
    LET s == Xor(nanos, draft_uid)
    IN IF s = I32Min THEN I32Min ELSE IF s < 0 THEN -s ELSE s

RecyclingBucketName == "recycling-bin"
RecyclingKey == "free-chunks-acct"   \* format!("free-chunks-{}", self.email_account_id), one account

\* Find or create the bucket "recycling-bin" and the object "free-chunks-<account>";
\* the result's rid is the recycling object's id.
get_or_create_recycling_object(c) ==
    LET withBucket(c1) ==
            LET found == {b \in c1.buckets : b.name = RecyclingBucketName}
            IN IF found # {} THEN {[c1 EXCEPT !.bid = b.id] : b \in found}
               ELSE FaultOf(c1) \cup
                    {[Drawn(c1, new_v4(c1)) EXCEPT
                        !.buckets = @ \cup {[id |-> new_v4(c1), name |-> RecyclingBucketName]},
                        !.bid = new_v4(c1)]}
        withObject(c2) ==
            LET bucket_id == c2.bid
                found == {o \in c2.objects : o.bucket_id = bucket_id /\ o.key = RecyclingKey}
            IN IF found # {} THEN {[c2 EXCEPT !.rid = o.id] : o \in found}
               ELSE FaultOf(c2) \cup
                    {[Drawn(c2, new_v4(c2)) EXCEPT !.objects = @ \cup
                          {[id |-> new_v4(c2), bucket_id |-> bucket_id, key |-> RecyclingKey,
                            size |-> 0, etag |-> <<>>,
                            content_type |-> "application/octet-stream",
                            metadata |-> "null", chunk_count |-> 0]},
                        !.rid = new_v4(c2)]}
    IN FaultOf(c) \cup
       UNION {IF b.err THEN {b}
              ELSE FaultOf(b) \cup withObject(b)
              : b \in withBucket(c)}

\* A schema without the unique index on objects(bucket_id, key): C8 must not
\* survive it.
idx_objects_bucket_key_Absent(rows, bucket_id, key) == FALSE

\* idx_objects_bucket_key: an insert into objects is refused when a row with the
\* same (bucket_id, key) exists.
idx_objects_bucket_key(rows, bucket_id, key) ==
    \E o \in rows : o.bucket_id = bucket_id /\ o.key = key

\* idx_chunks_object_index: a chunk row may not take the (object_id, chunk_index)
\* of another row.
idx_chunks_object_index(rows, id, object_id, chunk_index) ==
    \E x \in rows : x.id # id /\ x.object_id = object_id /\ x.chunk_index = chunk_index

\* The foreign keys objects.bucket_id -> buckets.id and chunks.object_id ->
\* objects.id: an insert whose parent row is missing is refused.
fk_objects_bucket(bs, bucket_id) == \E b \in bs : b.id = bucket_id
fk_chunks_object(os, object_id) == \E o \in os : o.id = object_id

\* A delete that re-parents on the last reference instead: C11 must not
\* survive it.
ReparentsWhen_LastReference(usage_count) == usage_count = 0

\* if usage_count > 0 { ...re-parent to the recycling object... }
ReparentsWhen(usage_count) == usage_count > 0

\* A delete that expunges the draft of a row it does not re-parent: C28 must
\* not survive it.
drop_reference_Expunges(c, chunk_record) ==
    {[d EXCEPT !.err = FALSE] : d \in delete_draft(c, chunk_record.draft_uid)}
\* The `if` has no else: a row that is not re-parented is left to the
\* delete_many below, and its draft is not touched.
drop_reference(c, chunk_record) == {c}

\* One iteration of delete's loop over the object's chunk rows.
delete_chunk(c, object_id, chunk_record) ==
    LET usage_count == Cardinality({x \in c.chunks :
            x.hash = chunk_record.hash /\ x.status = "active" /\ x.object_id # object_id})
        update(g, nanos) ==
            LET idx == unique_index(nanos, chunk_record.draft_uid)
                free_record == [chunk_record EXCEPT
                    !.object_id = g.rid, !.status = "free", !.chunk_index = idx]
                clash == idx_chunks_object_index(g.chunks, chunk_record.id, g.rid, idx)
            IN IF clash THEN Raised(g)
               ELSE [g EXCEPT !.chunks =
                        {x \in @ : x.id # chunk_record.id} \cup {free_record}]
    IN FaultOf(c) \cup
       (IF ReparentsWhen(usage_count)
        THEN UNION {IF g.err THEN {g}
                    ELSE FaultOf(g) \cup {update(g, nanos) : nanos \in Nanos}
                    : g \in get_or_create_recycling_object(c)}
        ELSE drop_reference(c, chunk_record))

\* delete_many on chunks.object_id, then delete_by_id on objects.
delete_rows(c, object_id) ==
    LET c1 == [c EXCEPT !.chunks = {x \in @ : x.object_id # object_id}]
        c2 == [c1 EXCEPT !.objects = {o \in @ : o.id # object_id}]
    IN FaultOf(c) \cup FaultOf(c1) \cup {c2}

\* The loop visits the rows in the order the unordered query returned them.
RECURSIVE delete_loop(_, _, _)
delete_loop(c, object_id, todo) ==
    IF todo = {} THEN delete_rows(c, object_id)
    ELSE UNION {UNION {IF d.err THEN {d} ELSE delete_loop(d, object_id, todo \ {r})
                       : d \in delete_chunk(c, object_id, r)}
                : r \in todo}

delete(c, object_id) ==
    FaultOf(c) \cup delete_loop(c, object_id, {x \in c.chunks : x.object_id = object_id})

delete_by_key(c, bucket_id, key) ==
    LET found == {o \in c.objects : o.bucket_id = bucket_id /\ o.key = key}
    IN FaultOf(c) \cup
       (IF found = {} THEN {c} ELSE UNION {delete(c, o.id) : o \in found})

\* ChunkMetadata as upload fills it: the key goes into bucket and key.
Subject(key, chunk, total_chunks, object_id) ==
    [bucket |-> key, key |-> key, chunk_idx |-> chunk.index,
     total_chunks |-> total_chunks, object_id |-> object_id]

\* A dedup probe that filters on the wrong status: C4 must not survive it.
DedupCandidates_Free(c, hash) == {x \in c.chunks : x.hash = hash /\ x.status = "free"}

\* The dedup probe: any active row with the chunk's hash.
DedupCandidates(c, hash) == {x \in c.chunks : x.hash = hash /\ x.status = "active"}
\* The recycling probe: any free row.
FreeCandidates(c) == {x \in c.chunks : x.status = "free"}

insert_chunk(c, object_id, chunk, draft_uid) ==
    FaultOf(c) \cup
    (IF \/ idx_chunks_object_index(c.chunks, new_v4(c), object_id, chunk.index)
        \/ ~fk_chunks_object(c.objects, object_id)
     THEN {Raised(c)}
     ELSE {[Drawn(c, new_v4(c)) EXCEPT !.chunks = @ \cup
        {[id |-> new_v4(c), object_id |-> object_id, chunk_index |-> chunk.index,
          size |-> chunk.size, hash |-> chunk.hash, draft_uid |-> draft_uid,
          status |-> "active"]}]})

\* create the new draft, delete the free row's draft (errors ignored), delete
\* the free row (errors ignored)
recycle(c, free, subject, data) ==
    UNION {IF a.err THEN {a}
           ELSE UNION {LET e == [d EXCEPT !.err = FALSE]
                       IN {[e EXCEPT !.chunks = {x \in @ : x.id # free.id}]} \cup
                          (IF CanFault(e) THEN {[e EXCEPT !.faults = @ + 1]} ELSE {})
                       : d \in delete_draft(a, free.draft_uid)}
           : a \in create_draft(c, subject, data)}

\* One iteration of upload's loop over the chunks.
upload_chunk(c, object_id, key, chunk, total_chunks) ==
    LET existing == DedupCandidates(c, chunk.hash)
        subject == Subject(key, chunk, total_chunks, object_id)
        bound == IF existing # {}
                 THEN {[c EXCEPT !.uid = x.draft_uid] : x \in existing}
                 ELSE FaultOf(c) \cup
                      (IF FreeCandidates(c) # {}
                       THEN UNION {recycle(c, free, subject, chunk.data) : free \in FreeCandidates(c)}
                       ELSE create_draft(c, subject, chunk.data))
    IN FaultOf(c) \cup
       UNION {IF b.err THEN {b} ELSE insert_chunk(b, object_id, chunk, b.uid) : b \in bound}

RECURSIVE upload_loop(_, _, _, _, _)
upload_loop(c, object_id, key, parts, i) ==
    IF i > Len(parts) THEN {c}
    ELSE UNION {IF d.err THEN {d} ELSE upload_loop(d, object_id, key, parts, i + 1)
                : d \in upload_chunk(c, object_id, key, parts[i], Len(parts))}

\* upload up to its loop: delete_by_key(bucket_id, key).ok(), then the insert
\* of the object row.
upload_begin(c, bucket_id, key, data, content_type, metadata_json) ==
    LET parts == chunk_data(data, chunkSize)
        insert(c1) ==
            LET object_id == new_v4(c1)
                c2 == [Drawn(c1, object_id) EXCEPT !.oid = object_id]
                clash == \/ idx_objects_bucket_key(c2.objects, bucket_id, key)
                         \/ ~fk_objects_bucket(c2.buckets, bucket_id)
                obj == [id |-> object_id, bucket_id |-> bucket_id, key |-> key,
                        size |-> Len(data), etag |-> ETag(data),
                        content_type |-> content_type, metadata |-> metadata_json,
                        chunk_count |-> Len(parts)]
            IN FaultOf(c2) \cup
               (IF clash THEN {Raised(c2)}
                ELSE {[c2 EXCEPT !.objects = @ \cup {obj}]})
    IN UNION {insert([d EXCEPT !.err = FALSE]) : d \in delete_by_key(c, bucket_id, key)}

upload(c, bucket_id, key, data, content_type, metadata_json) ==
    UNION {IF b.err THEN {b}
           ELSE upload_loop(b, b.oid, key, chunk_data(data, chunkSize), 1)
           : b \in upload_begin(c, bucket_id, key, data, content_type, metadata_json)}

RECURSIVE download_loop(_, _, _)
download_loop(c, rows, acc) ==
    IF rows = {} THEN {[c EXCEPT !.data = acc]}
    ELSE LET r == CHOOSE x \in rows : \A y \in rows : x.chunk_index <= y.chunk_index
         IN UNION {IF g.err THEN {g} ELSE download_loop(g, rows \ {r}, acc \o g.data)
                   : g \in get_draft(c, r.draft_uid)}

download(c, object_id) ==
    LET rows == {x \in c.chunks : x.object_id = object_id}
    IN FaultOf(c) \cup
       (IF rows = {} THEN {Raised(c)} ELSE download_loop(c, rows, <<>>))

\* A copy that uploads with the default content type instead of the source's:
\* C10 must not survive it.
copy_DefaultType(c, source_object, dest_bucket_id, dest_key) ==
    UNION {IF d.err THEN {d}
           ELSE upload(d, dest_bucket_id, dest_key, d.data,
                       "application/octet-stream", source_object.metadata)
           : d \in download(c, source_object.id)}

copy(c, source_object, dest_bucket_id, dest_key) ==
    UNION {IF d.err THEN {d}
           ELSE upload(d, dest_bucket_id, dest_key, d.data,
                       source_object.content_type, source_object.metadata)
           : d \in download(c, source_object.id)}

\* ----------------------------------------------------------- the system
\* The parts of the state a specification does not exercise stay as constructed.
NoRequests == reqs = <<>> /\ pipeline = 0
NoTasks == tasks = <<>> /\ session = 0 /\ wire = <<>>
NoCall == arg = 0 /\ ret = 0
NoUploads == multipart_uploads = {} /\ multipart_parts = {} /\ temp_files = {}

Init ==
    /\ chunkSize \in ChunkSizes
    /\ objects = {}
    /\ chunks = {}
    /\ buckets = UserBuckets
    /\ drafts = {}
    /\ nextUid = 1
    /\ faults = 0
    /\ ops = 0
    /\ failed = FALSE
    /\ NoRequests
    /\ NoTasks
    /\ NoUploads
    /\ NoCall

\* The tables and the mailbox as the operation left them.
Commit(r) ==
    /\ objects' = r.objects
    /\ chunks' = r.chunks
    /\ buckets' = r.buckets
    /\ drafts' = r.drafts
    /\ nextUid' = r.nextUid
    /\ faults' = r.faults
    /\ failed' = (failed \/ r.err)
    /\ UNCHANGED chunkSize

Writes == ops < MaxOps /\ ops' = ops + 1
Serial == UNCHANGED <<handlerVars, providerVars, callVars, multipartVars>>

\* put_object: pipeline.upload(bucket.id, &key, &body, &content_type, metadata_json)
Upload(bucket_id, key, data, attrs) ==
    /\ Writes
    /\ \E r \in upload(Ctx0, bucket_id, key, data, attrs.content_type, attrs.metadata) :
          Commit(r)
    /\ Serial

\* delete_object: pipeline.delete_by_key(bucket.id, &key)
Delete(bucket_id, key) ==
    /\ Writes
    /\ \E r \in delete_by_key(Ctx0, bucket_id, key) : Commit(r)
    /\ Serial

\* get_object: the object row is looked up, then pipeline.download(obj.id)
Download(obj) ==
    /\ UNCHANGED ops
    /\ \E r \in download(Ctx0, obj.id) : Commit(r)
    /\ Serial

\* copy_object: pipeline.copy(&source_object, dest_bucket.id, dest_key)
Copy(source_object, dest_bucket_id, dest_key) ==
    /\ Writes
    /\ \E r \in copy(Ctx0, source_object, dest_bucket_id, dest_key) : Commit(r)
    /\ Serial

UserObjects == {o \in objects : \E b \in UserBuckets : b.id = o.bucket_id}

Next ==
    \/ \E b \in UserBuckets, k \in Keys, data \in Payloads :
          Upload(b.id, k, data, UserAttrs[k])
    \/ \E b \in UserBuckets, k \in Keys : Delete(b.id, k)
    \/ \E o \in UserObjects : Download(o)
    \/ \E o \in UserObjects, b \in UserBuckets, k \in Keys : Copy(o, b.id, k)

Spec == Init /\ [][Next]_vars

\* ------------------------------------------------------------ properties
\* A property of an operation is stated over the outcomes the operation has
\* from a reachable state in which it may start: an outcome r is the context
\* the handler ends in, with its result (r.err, r.oid, r.data) and its provider
\* calls (r.calls).
BucketIds == {b.id : b \in UserBuckets}
UploadArgs ==
    {[bucket_id |-> b, key |-> k, data |-> data, attrs |-> UserAttrs[k]]
        : b \in BucketIds, k \in Keys, data \in Payloads}
UploadFrom(a) ==
    IF ops < MaxOps
    THEN upload(Ctx0, a.bucket_id, a.key, a.data, a.attrs.content_type, a.attrs.metadata)
    ELSE {}
DeleteArgs == [bucket_id : BucketIds, key : Keys]
DeleteFrom(a) == IF ops < MaxOps THEN delete_by_key(Ctx0, a.bucket_id, a.key) ELSE {}
CopyArgs == [source : UserObjects, bucket_id : BucketIds, key : Keys]
CopyFrom(a) == IF ops < MaxOps THEN copy(Ctx0, a.source, a.bucket_id, a.key) ELSE {}
WriteOutcomes ==
    UNION {UploadFrom(a) : a \in UploadArgs} \cup UNION {DeleteFrom(a) : a \in DeleteArgs}
    \cup UNION {CopyFrom(a) : a \in CopyArgs}

\* No operation has failed and no I/O fault has occurred so far / in outcome r.
Clean == faults = 0 /\ ~failed
CleanRun(r) == r.faults = 0 /\ ~r.err
\* r without any further I/O fault
FaultFree(r) == [r EXCEPT !.faults = MaxFaults]

ObjectsAt(rows, bucket_id, key) == {o \in rows : o.bucket_id = bucket_id /\ o.key = key}
RowsOf(rows, object_id) == {x \in rows : x.object_id = object_id}
HasCall(r, name) == \E n \in 1..Len(r.calls) : r.calls[n].call = name

\* C1 (as claimed, for non-empty payloads): when no operation has failed and no
\* I/O fault occurs, a successful upload of B returning object o is followed by
\* download(o.id) returning exactly B.
C1_Roundtrip ==
    Clean =>
        \A a \in UploadArgs : \A r \in UploadFrom(a) :
            (CleanRun(r) /\ a.data # <<>>) =>
                \A d \in download(FaultFree(r), r.oid) : ~d.err /\ d.data = a.data

\* The draft an active row points at is resident and holds bytes of the row's hash.
Resident(c, x) == \E d \in c.drafts : d.uid = x.draft_uid /\ Sha256Hex(d.data) = x.hash
ActiveResident(c) == \A x \in c.chunks : x.status = "active" => Resident(c, x)

\* C2 (as claimed): in every state reached by uploads, copies and deletes that
\* all succeeded without an I/O fault, every active chunk row's draft_uid
\* identifies a resident draft whose attachment has the row's hash.
C2_ActiveChunksResident == Clean => ActiveResident(Ctx0)

\* C3 (as claimed): a successful delete drops each chunk row of the object whose
\* hash another object's active row shares, and re-parents every other row (a
\* last reference) to the RecyclingObject with status free.
Shared(x) == \E y \in chunks : y.hash = x.hash /\ y.status = "active" /\ y.object_id # x.object_id
Dropped(r, x) == \A y \in r.chunks : y.id # x.id
IsRecyclingObject(r, object_id) ==
    \E o \in r.objects : /\ o.id = object_id /\ o.key = RecyclingKey
                         /\ \E b \in r.buckets : b.id = o.bucket_id /\ b.name = RecyclingBucketName
Parked(r, x) ==
    \E y \in r.chunks : /\ y.id = x.id /\ y.status = "free" /\ y.draft_uid = x.draft_uid
                        /\ IsRecyclingObject(r, y.object_id)
C3_DeleteDisposition ==
    Clean =>
        \A a \in DeleteArgs : \A r \in DeleteFrom(a) : CleanRun(r) =>
            \A o \in ObjectsAt(objects, a.bucket_id, a.key) : \A x \in RowsOf(chunks, o.id) :
                IF Shared(x) THEN Dropped(r, x) ELSE Parked(r, x)

\* The rows of other objects that stay active throughout an upload to (bucket_id, key):
\* the active rows that do not belong to the object the upload overwrites.
OtherActive(bucket_id, key) ==
    {y \in chunks : y.status = "active" /\
        \A o \in ObjectsAt(objects, bucket_id, key) : y.object_id # o.id}
CreatesFor(r, idx) ==
    {n \in 1..Len(r.calls) : r.calls[n].call = "create_draft" /\ r.calls[n].idx = idx}

\* C4: in every upload (successful or not, with or without I/O faults), for a
\* chunk whose hash is that of an active row of another object or of an earlier
\* chunk of the same upload, create_draft is not invoked and the chunk's row, if
\* written, carries the draft_uid of such a row; and no upload invokes
\* create_draft twice for the same bytes.
C4_Dedup ==
    \A a \in UploadArgs : \A r \in UploadFrom(a) :
        LET parts == chunk_data(a.data, chunkSize)
            mine == RowsOf(r.chunks, r.oid)
            creates == {n \in 1..Len(r.calls) : r.calls[n].call = "create_draft"}
        IN /\ \A n1 \in creates, n2 \in creates :
                r.calls[n1].data = r.calls[n2].data => n1 = n2
           /\ \A i \in 1..Len(parts) :
            LET sameHash == {y \in OtherActive(a.bucket_id, a.key) : y.hash = parts[i].hash}
                            \cup {y \in mine : y.chunk_index < i - 1 /\ y.hash = parts[i].hash}
                hit == \/ \E y \in OtherActive(a.bucket_id, a.key) : y.hash = parts[i].hash
                       \/ \E j \in 1..(i - 1) : parts[j].hash = parts[i].hash
            IN hit =>
                /\ CreatesFor(r, i - 1) = {}
                /\ \A x \in mine : x.chunk_index = i - 1 =>
                      \E y \in sameHash : y.draft_uid = x.draft_uid

\* C4 witness: a successful two-chunk upload that invoked no create_draft and
\* bound both chunk rows to the draft of another object's active row.
C4_Witness ==
    \E a \in UploadArgs : \E r \in UploadFrom(a) :
        /\ ~r.err /\ ~HasCall(r, "create_draft") /\ Len(chunk_data(a.data, chunkSize)) = 2
        /\ \E y \in OtherActive(a.bucket_id, a.key) :
              \A x \in RowsOf(r.chunks, r.oid) : x.draft_uid = y.draft_uid

ActiveHashes(c) == {x.hash : x \in {y \in c.chunks : y.status = "active"}}
LiveDrafts(c) == {d.uid : d \in c.drafts}

\* C5 (as claimed, read at a moment when the free pool is empty): after uploads
\* and deletes that all succeeded without an I/O fault, the number of drafts in
\* the mailbox equals the number of distinct hashes of active chunk rows.
C5_RecyclingConservation ==
    (Clean /\ \A x \in chunks : x.status = "active") =>
        Cardinality(LiveDrafts(Ctx0)) = Cardinality(ActiveHashes(Ctx0))

\* C6 (as claimed): after uploads, copies and deletes that all succeeded without
\* an I/O fault, every resident draft is referenced by a chunk row.
C6_NoUnreferencedDraft ==
    Clean => \A d \in drafts : \E x \in chunks : x.draft_uid = d.uid

\* C7 (as claimed): an upload that fails leaves no object row and no chunk row of
\* the object it was creating.
C7_UploadFailureAtomic ==
    \A a \in UploadArgs : \A r \in UploadFrom(a) :
        r.err => /\ \A o \in r.objects : o.id # r.oid
                 /\ RowsOf(r.chunks, r.oid) = {}

\* C8 (first part): (bucket_id, key) is unique among object rows.
UniqueBucketKey(rows) ==
    \A o1 \in rows, o2 \in rows :
        (o1.bucket_id = o2.bucket_id /\ o1.key = o2.key) => o1.id = o2.id
\* The object row and the active chunk rows of object_id describe payload `data`.
Describes(r, object_id, data) ==
    LET parts == chunk_data(data, chunkSize)
    IN /\ \E o \in r.objects : /\ o.id = object_id /\ o.size = Len(data)
                               /\ o.etag = ETag(data) /\ o.chunk_count = Len(parts)
       /\ {[chunk_index |-> x.chunk_index, hash |-> x.hash, size |-> x.size, status |-> x.status]
              : x \in RowsOf(r.chunks, object_id)}
          = {[chunk_index |-> parts[i].index, hash |-> parts[i].hash, size |-> parts[i].size,
              status |-> "active"] : i \in 1..Len(parts)}
\* C8: (bucket_id, key) is unique among object rows in every reachable state and
\* in every outcome of an operation; after a successful upload to a key that
\* holds an object, exactly one object row is at the key, its id occurs nowhere
\* in the state before the upload, it and its chunk rows describe the new
\* payload, and the previous object's id has no object row and no chunk row.
C8_Overwrite ==
    /\ UniqueBucketKey(objects)
    /\ \A r \in WriteOutcomes : UniqueBucketKey(r.objects)
    /\ \A a \in UploadArgs : \A r \in UploadFrom(a) :
          \A old \in ObjectsAt(objects, a.bucket_id, a.key) :
              ~r.err =>
                  /\ {o.id : o \in ObjectsAt(r.objects, a.bucket_id, a.key)} = {r.oid}
                  /\ r.oid \notin IdsIn(objects, chunks, buckets)
                  /\ Describes(r, r.oid, a.data)
                  /\ \A o \in r.objects : o.id # old.id
                  /\ RowsOf(r.chunks, old.id) = {}

\* C8 witness: a successful upload of another payload over a key that holds an object.
C8_Witness ==
    \E a \in UploadArgs : \E r \in UploadFrom(a) :
        /\ ~r.err
        /\ \E old \in ObjectsAt(objects, a.bucket_id, a.key) :
              old.etag # ETag(a.data) /\ RowsOf(chunks, old.id) # {}

\* chunk_count is the number of active rows of the object, whose chunk_index
\* values are exactly 0 .. chunk_count - 1.
CountsAgree(os, cs) ==
    \A o \in os :
        LET rows == {x \in RowsOf(cs, o.id) : x.status = "active"}
        IN /\ Cardinality(rows) = o.chunk_count
           /\ {x.chunk_index : x \in rows} = 0..(o.chunk_count - 1)

\* C9 (as claimed): between pipeline operations, after successful and failed
\* ones, every object row's chunk_count is the number of its active chunk rows
\* and their chunk_index values are exactly 0 .. chunk_count - 1.
C9_ChunkCount == CountsAgree(objects, chunks)

\* The destination of copy a is the source's own (bucket, key).
SelfCopy(a) == a.bucket_id = a.source.bucket_id /\ a.key = a.source.key
\* The rows of one object in chunk_index order (idx_chunks_object_index makes
\* the order total), and their draft_uids in that order.
InIndexOrder(rows) ==
    CHOOSE s \in [1..Cardinality(rows) -> rows] :
        \A i \in DOMAIN s, j \in DOMAIN s : i < j => s[i].chunk_index < s[j].chunk_index
DraftUids(rows) == [i \in 1..Cardinality(rows) |-> InIndexOrder(rows)[i].draft_uid]
\* The same, chunk_index by chunk_index.
SameUidAtIndex(r, a) ==
    {<<x.chunk_index, x.draft_uid>> : x \in RowsOf(r.chunks, r.oid)}
    = {<<x.chunk_index, x.draft_uid>> : x \in RowsOf(chunks, a.source.id)}
\* Outcome r of copy a: the new object is at the destination with the source's
\* content_type and metadata, its chunk rows are active and carry, in
\* chunk_index order, the draft_uids of the source's rows in chunk_index order,
\* and create_draft was not invoked.
Propagated(r, a) ==
    /\ \E o \in r.objects : /\ o.id = r.oid /\ o.bucket_id = a.bucket_id /\ o.key = a.key
                            /\ o.content_type = a.source.content_type
                            /\ o.metadata = a.source.metadata
    /\ \A x \in RowsOf(r.chunks, r.oid) : x.status = "active"
    /\ DraftUids(RowsOf(r.chunks, r.oid)) = DraftUids(RowsOf(chunks, a.source.id))
    /\ ~HasCall(r, "create_draft")

\* C10 (amended): every successful copy of an object to a destination other than
\* the source's own (bucket, key) propagates the source's content_type and
\* metadata, binds the destination's chunk rows, in chunk_index order, to the
\* draft_uids of the source's chunk rows in chunk_index order (chunk_index by
\* chunk_index when the source has all the rows its chunk_count announces), and
\* invokes create_draft zero times.
C10_Copy ==
    \A a \in CopyArgs : \A r \in CopyFrom(a) :
        (~r.err /\ ~SelfCopy(a)) =>
            /\ Propagated(r, a)
            /\ CountsAgree({a.source}, chunks) => SameUidAtIndex(r, a)

\* C10 witness: a successful copy of a two-chunk object over another key that
\* holds an object.
C10_Witness ==
    \E a \in CopyArgs : \E r \in CopyFrom(a) :
        /\ ~r.err /\ ~SelfCopy(a)
        /\ ObjectsAt(objects, a.bucket_id, a.key) # {}
        /\ Cardinality(RowsOf(r.chunks, r.oid)) = 2

\* C10 (as claimed): the same of every successful copy, the copy of an object
\* onto its own key included.
C10_CopyAnyDestination ==
    \A a \in CopyArgs : \A r \in CopyFrom(a) :
        ~r.err => (Propagated(r, a) /\ SameUidAtIndex(r, a))

\* The context a further operation starts in after outcome r was returned.
After(r) == [r EXCEPT !.calls = <<>>, !.err = FALSE]
\* o1 and o2 are two objects whose rows are active and have the same hashes,
\* and no third object's active row has one of these hashes.
SharePair(o1, o2) ==
    LET rows1 == RowsOf(chunks, o1.id)
        rows2 == RowsOf(chunks, o2.id)
    IN /\ o1.id # o2.id /\ rows1 # {}
       /\ {x.hash : x \in rows1} = {x.hash : x \in rows2}
       /\ \A x \in chunks :
             (x.status = "active" /\ x.object_id \notin {o1.id, o2.id})
                 => \A y \in rows1 : y.hash # x.hash
DeleteOf(o) == DeleteFrom([bucket_id |-> o.bucket_id, key |-> o.key])

RECURSIVE StepContexts(_, _, _)
StepContexts(a, parts, i) ==
    IF ops >= MaxOps THEN {}
    ELSE IF i = 1
    THEN {After(b) : b \in {b \in upload_begin(Ctx0, a.bucket_id, a.key, a.data,
                                  a.attrs.content_type, a.attrs.metadata) : ~b.err}}
    ELSE {After(s) : s \in {s \in UNION {upload_chunk(c, c.oid, a.key, parts[i - 1], Len(parts))
                                            : c \in StepContexts(a, parts, i - 1)} : ~s.err}}
\* Every loop iteration of every upload from this state: the context c it
\* starts in and the chunk p it handles.
Steps ==
    UNION {LET parts == chunk_data(a.data, chunkSize)
           IN UNION {{[c |-> c, p |-> parts[i], n |-> Len(parts), key |-> a.key]
                        : c \in StepContexts(a, parts, i)} : i \in 1..Len(parts)}
           : a \in UploadArgs}
StepFrom(st) == upload_chunk(st.c, st.c.oid, st.key, st.p, st.n)
\* A dedup miss while a free row exists.
Recycles(st) == DedupCandidates(st.c, st.p.hash) = {} /\ FreeCandidates(st.c) # {}
FreeRows(c) == {x \in c.chunks : x.status = "free"}
\* Outcome s of step st recycled free row `free`: one create_draft for the
\* chunk's bytes, then one delete_draft for free's draft_uid; free is gone and
\* one active row bound to the new UID is added; the mailbox has as many
\* drafts as before and the free pool one row less.
RecycledWith(st, s, free) ==
    /\ Len(s.calls) = 2
    /\ s.calls[1].call = "create_draft" /\ s.calls[1].data = st.p.data
    /\ s.calls[2].call = "delete_draft" /\ s.calls[2].uid = free.draft_uid
    /\ \A d \in st.c.drafts : d.uid # s.uid
    /\ \E d \in s.drafts : d.uid = s.uid /\ d.data = st.p.data
    /\ \E x \in s.chunks :
          /\ s.chunks = (st.c.chunks \ {free}) \cup {x}
          /\ x \notin st.c.chunks
          /\ x.status = "active" /\ x.object_id = st.c.oid /\ x.chunk_index = st.p.index
          /\ x.hash = st.p.hash /\ x.draft_uid = s.uid
    /\ Cardinality(s.drafts) = Cardinality(st.c.drafts)
    /\ Cardinality(FreeRows(s)) = Cardinality(FreeRows(st.c)) - 1
\* create_draft failed in outcome s of step st: it was the only provider call.
CreateFailed(s) == s.err /\ Len(s.calls) = 1 /\ s.calls[1].call = "create_draft"
Untouched(st, s) ==
    /\ s.chunks = st.c.chunks
    /\ \A x \in FreeRows(st.c) : \A d \in st.c.drafts : d.uid = x.draft_uid => d \in s.drafts

\* C12 (as claimed, of steps not preceded by any failure or I/O error): a
\* recycling step in which no I/O error occurs is one create_draft, one
\* delete_draft of the chosen free row's draft, the free row's removal and the
\* new active row, with the number of drafts unchanged and the free pool one
\* smaller; and a step whose create_draft fails leaves the chunk rows and the
\* free rows' drafts as they were.
C12_RecyclingStep ==
    Clean =>
        \A st \in Steps : Recycles(st) =>
            \A s \in StepFrom(st) :
                /\ CleanRun(s) => \E free \in FreeRows(st.c) : RecycledWith(st, s, free)
                /\ CreateFailed(s) => Untouched(st, s)

\* ------------------------------------------- the S3 handlers, step by step
\* Requests are served by concurrent tasks.  A handler looks its bucket (and
\* object) up on the shared connection pool, then takes state.pipeline.lock()
\* and runs the pipeline operation under the guard; delete_bucket never takes
\* the lock.  A step is one await of the handler; upload is taken statement by
\* statement (its begin, then one step per chunk).
MaxReqs == 3       \* concurrent requests
Reqs == 1..MaxReqs
Handlers == {"put_object", "get_object", "delete_object", "copy_object",
             "complete_multipart_upload", "delete_bucket"}
BucketName == "mybucket"
Body == <<0, 1>>
\* the key a handler's request names; a copy reads SourceKey
RequestKey == [put_object |-> "x", get_object |-> "x", delete_object |-> "x",
               copy_object |-> "y", complete_multipart_upload |-> "y"]
SourceKey == "x"
Request(h) == [handler |-> h, pc |-> "find_bucket", bucket |-> 0, object |-> 0,
               oid |-> 0, i |-> 0, status |-> 0]

\* A mutex whose lock() returns although another task holds the guard: C13
\* must not survive it.
pipeline_lock_Shared(holder) == TRUE
\* state.pipeline.lock().await returns when no task holds the guard.
pipeline_lock(holder) == holder = 0

Respond(r, status) == [reqs EXCEPT ![r].pc = "done", ![r].status = status]
Goto(r, pc) == [reqs EXCEPT ![r].pc = pc]
\* A lookup of the handler itself fails: map_err(InternalError)?
DbError(r) ==
    /\ faults < MaxFaults
    /\ faults' = faults + 1
    /\ reqs' = Respond(r, 500)
    /\ UNCHANGED <<chunkSize, objects, chunks, buckets, drafts, nextUid, ops, failed>>

\* The operation the handler runs once it holds the guard.
OperationOf == [put_object |-> "upload_begin", complete_multipart_upload |-> "upload_begin",
                get_object |-> "download", delete_object |-> "delete_by_key",
                copy_object |-> "copy"]
AfterBucket(q) ==
    CASE q.handler \in {"get_object", "copy_object"} /\ q.pc = "find_bucket" -> "find_object"
      [] q.handler = "delete_bucket" -> "count"
      [] OTHER -> "lock"

\* bucket::Entity::find().filter(Name.eq(..)).one(), find_by_id(upload.bucket_id)
\* in complete_multipart_upload, and the destination bucket of a copy
FindBucket(r) ==
    /\ reqs[r].pc \in {"find_bucket", "find_dest_bucket"}
    /\ \/ DbError(r)
       \/ /\ LET found == {b \in buckets : b.name = BucketName}
             IN IF found = {} THEN reqs' = Respond(r, 404)
                ELSE \E b \in found :
                        reqs' = [reqs EXCEPT ![r].bucket = b.id, ![r].pc = AfterBucket(reqs[r])]
          /\ UNCHANGED storeVars
    /\ UNCHANGED <<pipeline, providerVars, callVars, multipartVars>>

\* object::Entity::find().filter(BucketId).filter(Key).one()
FindObject(r) ==
    /\ reqs[r].pc = "find_object"
    /\ \/ DbError(r)
       \/ /\ LET found == ObjectsAt(objects, reqs[r].bucket, SourceKey)
             IN IF found = {} THEN reqs' = Respond(r, 404)
                ELSE \E o \in found :
                        reqs' = [reqs EXCEPT ![r].object = o,
                                 ![r].pc = IF reqs[r].handler = "copy_object"
                                           THEN "find_dest_bucket" ELSE "lock"]
          /\ UNCHANGED storeVars
    /\ UNCHANGED <<pipeline, providerVars, callVars, multipartVars>>

\* let pipeline = state.pipeline.lock().await
Lock(r) ==
    /\ reqs[r].pc = "lock"
    /\ pipeline_lock(pipeline)
    /\ pipeline' = r
    /\ reqs' = Goto(r, OperationOf[reqs[r].handler])
    /\ UNCHANGED <<storeVars, providerVars, callVars, multipartVars>>

\* The operation's result as the handler maps it: Err -> InternalError.
Returned(r, c) == [reqs EXCEPT ![r].pc = "return", ![r].status = IF c.err THEN 500 ELSE 200]

\* pipeline.upload(..): delete_by_key(..).ok() and the insert of the object row
UploadBegin(r) ==
    /\ reqs[r].pc = "upload_begin"
    /\ LET q == reqs[r]
           attrs == UserAttrs[RequestKey[q.handler]]
       IN \E c \in upload_begin(Ctx0, q.bucket, RequestKey[q.handler], Body,
                                attrs.content_type, attrs.metadata) :
             /\ Commit(c)
             /\ reqs' = IF c.err THEN Returned(r, c)
                        ELSE [reqs EXCEPT ![r].pc = "upload_chunk", ![r].oid = c.oid, ![r].i = 1]
    /\ UNCHANGED <<ops, pipeline, providerVars, callVars, multipartVars>>

\* pipeline.upload(..): one iteration of the loop over the chunks
UploadChunk(r) ==
    /\ reqs[r].pc = "upload_chunk"
    /\ LET q == reqs[r]
           parts == chunk_data(Body, chunkSize)
       IN \E c \in upload_chunk(Ctx0, q.oid, RequestKey[q.handler], parts[q.i], Len(parts)) :
             /\ Commit(c)
             /\ reqs' = IF c.err \/ q.i = Len(parts) THEN Returned(r, c)
                        ELSE [reqs EXCEPT ![r].i = q.i + 1]
    /\ UNCHANGED <<ops, pipeline, providerVars, callVars, multipartVars>>

\* pipeline.download(obj.id)
DownloadObject(r) ==
    /\ reqs[r].pc = "download"
    /\ \E c \in download(Ctx0, reqs[r].object.id) : Commit(c) /\ reqs' = Returned(r, c)
    /\ UNCHANGED <<ops, pipeline, providerVars, callVars, multipartVars>>

\* pipeline.delete_by_key(bucket.id, &key); the handler answers 204
DeleteObject(r) ==
    /\ reqs[r].pc = "delete_by_key"
    /\ \E c \in delete_by_key(Ctx0, reqs[r].bucket, RequestKey[reqs[r].handler]) :
          /\ Commit(c)
          /\ reqs' = [reqs EXCEPT ![r].pc = "return", ![r].status = IF c.err THEN 500 ELSE 204]
    /\ UNCHANGED <<ops, pipeline, providerVars, callVars, multipartVars>>

\* pipeline.copy(&source_object, dest_bucket.id, dest_key)
CopyObject(r) ==
    /\ reqs[r].pc = "copy"
    /\ \E c \in copy(Ctx0, reqs[r].object, reqs[r].bucket, RequestKey[reqs[r].handler]) :
          Commit(c) /\ reqs' = Returned(r, c)
    /\ UNCHANGED <<ops, pipeline, providerVars, callVars, multipartVars>>

\* The guard goes out of scope when the handler returns;
\* complete_multipart_upload drops it before its cleanup.
Unlock(r) ==
    /\ reqs[r].pc = "return"
    /\ pipeline' = IF pipeline = r THEN 0 ELSE pipeline
    /\ reqs' = Goto(r, IF reqs[r].handler = "complete_multipart_upload" /\ reqs[r].status = 200
                       THEN "cleanup" ELSE "done")
    /\ UNCHANGED <<storeVars, providerVars, callVars, multipartVars>>

\* the temp files and the multipart rows are removed, errors ignored
Cleanup(r) ==
    /\ reqs[r].pc = "cleanup"
    /\ reqs' = Goto(r, "done")
    /\ UNCHANGED <<storeVars, pipeline, providerVars, callVars, multipartVars>>

\* delete_bucket: object::Entity::find().filter(BucketId.eq(bucket.id)).count()
CountObjects(r) ==
    /\ reqs[r].pc = "count"
    /\ \/ DbError(r)
       \/ /\ LET object_count == Cardinality({o \in objects : o.bucket_id = reqs[r].bucket})
             IN reqs' = IF object_count > 0 THEN Respond(r, 409) ELSE Goto(r, "delete")
          /\ UNCHANGED storeVars
    /\ UNCHANGED <<pipeline, providerVars, callVars, multipartVars>>

\* ON DELETE CASCADE: the bucket's object rows and their chunk rows go with it.
cascade_objects(os, bucket_id) == {o \in os : o.bucket_id # bucket_id}
cascade_chunks(cs, os, bucket_id) ==
    {x \in cs : \A o \in os : o.id = x.object_id => o.bucket_id # bucket_id}

\* delete_bucket: bucket::Entity::delete_by_id(bucket.id)
DeleteBucket(r) ==
    /\ reqs[r].pc = "delete"
    /\ \/ DbError(r)
       \/ /\ buckets' = {b \in buckets : b.id # reqs[r].bucket}
          /\ objects' = cascade_objects(objects, reqs[r].bucket)
          /\ chunks' = cascade_chunks(chunks, objects, reqs[r].bucket)
          /\ reqs' = Respond(r, 204)
          /\ UNCHANGED <<chunkSize, drafts, nextUid, faults, ops, failed>>
    /\ UNCHANGED <<pipeline, providerVars, callVars, multipartVars>>

HandlersInit ==
    /\ chunkSize \in ChunkSizes
    /\ objects = {}
    /\ chunks = {}
    /\ buckets = UserBuckets
    /\ drafts = {}
    /\ nextUid = 1
    /\ faults = 0
    /\ ops = 0
    /\ failed = FALSE
    /\ reqs \in [Reqs -> {Request(h) : h \in Handlers}]
    /\ pipeline = 0
    /\ NoTasks
    /\ NoUploads
    /\ NoCall

HandlersNext ==
    \E r \in Reqs :
        \/ FindBucket(r)
        \/ FindObject(r)
        \/ Lock(r)
        \/ UploadBegin(r)
        \/ UploadChunk(r)
        \/ DownloadObject(r)
        \/ DeleteObject(r)
        \/ CopyObject(r)
        \/ Unlock(r)
        \/ Cleanup(r)
        \/ CountObjects(r)
        \/ DeleteBucket(r)

HandlersSpec == HandlersInit /\ [][HandlersNext]_vars

\* Request r is between the return of state.pipeline.lock() and the drop of the guard.
InOperation(r) ==
    reqs[r].pc \in {"upload_begin", "upload_chunk", "download", "delete_by_key", "copy", "return"}
\* Request r has run a step of its pipeline operation and has steps left.
MidOperation(r) == reqs[r].pc = "upload_chunk"

\* C13: at most one request is inside a pipeline operation (upload, download,
\* delete_by_key, copy), and a request that is inside one, from before the
\* operation's first DB or IMAP step until after its last, holds the pipeline
\* mutex.
C13_PipelineSerialized ==
    /\ \A r1, r2 \in Reqs : InOperation(r1) /\ InOperation(r2) => r1 = r2
    /\ \A r \in Reqs : InOperation(r) => pipeline = r

\* C13 witness: one request is in the middle of its upload while another one
\* waits for the pipeline mutex.
C13_Witness ==
    \E r1, r2 \in Reqs : MidOperation(r1) /\ reqs[r1].i = 2 /\ reqs[r2].pc = "lock"

\* The objects a bucket holds.
Holds(b) == {o \in objects : o.bucket_id = b.id}
\* A step that destroys bucket b.
Destroys(b) == b \in buckets /\ b \notin buckets'

\* C15 (as claimed): no step destroys a bucket that holds an object, whatever
\* the interleaving of delete_bucket with put_object, copy_object and
\* complete_multipart_upload; and a delete_bucket that counted an object
\* answers 409 and changes no table.
C15_BucketEmptyOnDestroy ==
    [][/\ \A b \in buckets : Destroys(b) => Holds(b) = {}
       /\ \A r \in Reqs :
             reqs[r].pc = "count" /\ reqs'[r].pc = "done" /\ reqs'[r].status = 409 =>
                 UNCHANGED <<objects, chunks, buckets, drafts>>]_vars

\* ------------------------------------------- the mail provider, step by step
\* GmailProvider keeps one IMAP connection behind session: Mutex<Option<Session>>.
\* Every method first runs ensure_session (lock; NOOP; on failure or without a
\* session LOGIN and CREATE; unlock), then locks again and sends its commands
\* while it holds the guard.  Any command may fail; the method then returns Err
\* and the guard is dropped.  A step is one IMAP exchange or one lock().
MaxTasks == 3      \* concurrent calls on the provider
Tasks == 1..MaxTasks
Methods == {"create_draft", "get_draft", "delete_draft", "health_check"}
Commands == [create_draft |-> <<"APPEND", "SELECT", "UID SEARCH">>,
             get_draft |-> <<"SELECT", "UID FETCH">>,
             delete_draft |-> <<"SELECT", "UID STORE", "EXPUNGE">>,
             health_check |-> <<"NOOP">>]
Task(m) == [method |-> m, pc |-> "ensure_session", n |-> 0, result |-> "pending"]

\* A mutex whose lock() returns although another call holds the guard: C14
\* must not survive it.
session_lock_Shared(holder) == TRUE
\* self.session.lock().await returns when no call holds the guard.
session_lock(holder) == holder = 0

\* The command goes out on the connection; part tells ensure_session's
\* commands from the method's own.
Sent(t, part, cmd) == Append(wire, [task |-> t, part |-> part, cmd |-> cmd])
At(t, pc) == [tasks EXCEPT ![t].pc = pc]
Released == [session EXCEPT !.holder = 0]
\* A call that sends a failed command of its own once more: C30 must not
\* survive it.
Failed_RetriesOnce(t) ==
    IF tasks[t].pc = "command" /\ tasks[t].result = "pending"
    THEN [tasks EXCEPT ![t].pc = "lock", ![t].result = "retrying"]
    ELSE [tasks EXCEPT ![t].pc = "done", ![t].result = "Err"]
\* `?` on an Err: the method returns it
Failed(t) == [tasks EXCEPT ![t].pc = "done", ![t].result = "Err"]

\* ensure_session: let mut guard = self.session.lock().await
EnsureLock(t) ==
    /\ tasks[t].pc = "ensure_session"
    /\ session_lock(session.holder)
    /\ session' = [session EXCEPT !.holder = t]
    /\ tasks' = At(t, IF session.open THEN "noop" ELSE "connect")
    /\ UNCHANGED <<wire, storeVars, handlerVars, callVars, multipartVars>>

\* ensure_session: session.noop().await.is_err()
Noop(t) ==
    /\ tasks[t].pc = "noop"
    /\ wire' = Sent(t, "ensure_session", "NOOP")
    /\ \/ tasks' = At(t, "lock") /\ session' = Released
       \/ tasks' = At(t, "connect") /\ UNCHANGED session
    /\ UNCHANGED <<storeVars, handlerVars, callVars, multipartVars>>

\* connect: client.login(..); a failure leaves the guard's content as it was
Login(t) ==
    /\ tasks[t].pc = "connect"
    /\ wire' = Sent(t, "ensure_session", "LOGIN")
    /\ \/ tasks' = At(t, "create") /\ UNCHANGED session
       \/ tasks' = Failed(t) /\ session' = Released
    /\ UNCHANGED <<storeVars, handlerVars, callVars, multipartVars>>

\* connect: let _ = session.create(&self.drafts_folder).await; *guard = Some(session)
Create(t) ==
    /\ tasks[t].pc = "create"
    /\ wire' = Sent(t, "ensure_session", "CREATE")
    /\ tasks' = At(t, "lock")
    /\ session' = [holder |-> 0, open |-> TRUE]
    /\ UNCHANGED <<storeVars, handlerVars, callVars, multipartVars>>

\* let mut guard = self.session.lock().await; guard.as_mut().context("No IMAP session")?
SessionLock(t) ==
    /\ tasks[t].pc = "lock"
    /\ session_lock(session.holder)
    /\ IF session.open
       THEN /\ session' = [session EXCEPT !.holder = t]
            /\ tasks' = [tasks EXCEPT ![t].pc = "command", ![t].n = 1]
       ELSE /\ tasks' = Failed(t)
            /\ UNCHANGED session
    /\ UNCHANGED <<wire, storeVars, handlerVars, callVars, multipartVars>>

\* The method's next command; `?` returns on its failure, and the guard is
\* dropped when the method returns.
Command(t) ==
    /\ tasks[t].pc = "command"
    /\ LET cmds == Commands[tasks[t].method]
       IN /\ wire' = Sent(t, tasks[t].method, cmds[tasks[t].n])
          /\ \/ tasks' = Failed(t) /\ session' = Released
             \/ /\ tasks[t].n < Len(cmds)
                /\ tasks' = [tasks EXCEPT ![t].n = @ + 1]
                /\ UNCHANGED session
             \/ /\ tasks[t].n = Len(cmds)
                /\ tasks' = [tasks EXCEPT ![t].pc = "done", ![t].result = "Ok"]
                /\ session' = Released
    /\ UNCHANGED <<storeVars, handlerVars, callVars, multipartVars>>

NoStore ==
    /\ chunkSize = 1 /\ objects = {} /\ chunks = {} /\ buckets = {} /\ drafts = {}
    /\ nextUid = 1 /\ faults = 0 /\ ops = 0 /\ failed = FALSE

ProviderInit ==
    /\ tasks \in [Tasks -> {Task(m) : m \in Methods}]
    /\ session = [holder |-> 0, open |-> FALSE]
    /\ wire = <<>>
    /\ NoStore
    /\ NoRequests
    /\ NoCall
    /\ NoUploads

ProviderNext ==
    \E t \in Tasks :
        \/ EnsureLock(t)
        \/ Noop(t)
        \/ Login(t)
        \/ Create(t)
        \/ SessionLock(t)
        \/ Command(t)

ProviderSpec == ProviderInit /\ [][ProviderNext]_vars

\* Call t is between two commands of one of its command sequences.
InSequence(t) == tasks[t].pc \in {"noop", "connect", "create", "command"}
\* The commands one call sent in one hold of the guard are adjacent on the wire.
Contiguous(w) ==
    \A i, k \in 1..Len(w) :
        i < k /\ w[i].task = w[k].task /\ w[i].part = w[k].part =>
            \A j \in i..k : w[j].task = w[i].task

\* C14: at most one call has a command sequence in flight on the connection,
\* and it holds the session mutex; on the wire the commands of one call's
\* sequence (the APPEND, SELECT and UID SEARCH of a create_draft among them) are
\* never interleaved with a command of another call.
C14_ProviderExclusive ==
    /\ \A t1, t2 \in Tasks : InSequence(t1) /\ InSequence(t2) => t1 = t2
    /\ \A t \in Tasks : InSequence(t) => session.holder = t
    /\ Contiguous(wire)

\* C14 witness: a create_draft has sent its APPEND and SELECT and not yet its
\* UID SEARCH while a second call waits for the session mutex and a third has
\* sent commands on the connection.
C14_Witness ==
    \E t1, t2, t3 \in Tasks :
        /\ tasks[t1].method = "create_draft" /\ tasks[t1].pc = "command" /\ tasks[t1].n = 3
        /\ t2 # t1 /\ tasks[t2].pc \in {"ensure_session", "lock"}
        /\ t3 # t1 /\ \E i \in 1..Len(wire) : wire[i].task = t3

\* ------------------------------------------------------- the SigV4 verifier
\* auth_middleware as a function of the request, the configuration and the
\* clock.  A header is the kind of text it carries (what to_str and
\* parse_authorization make of it); a timestamp header is its format and the
\* instant it names, in seconds; the clock is read in half seconds, Utc::now()
\* being finer than the second the header can name.  An HMAC is an injective
\* encoding of its key and message.
SkewLimit == 900
Config == [access_key_id |-> "AKID", secret_access_key |-> "secret"]
AccessKeys == {"AKID", "OTHER"}
Secrets == {"secret", "guess"}
RequestMethods == {"GET", "PUT"}
\* the server clock at the request, in half seconds: 2000 s and 2000.5 s
Clocks == {4000, 4001}
Instants == {1099, 1100, 2000, 2900, 2901}
NoHeader == [format |-> "absent", t |-> 0]
\* x-amz-date: absent, or YYYYMMDDTHHMMSSZ, or text that is no timestamp
AmzDates == {NoHeader, [format |-> "garbage", t |-> 0]} \cup [format : {"iso_basic"}, t : Instants]
\* Date: absent, or an HTTP-date, or YYYYMMDDTHHMMSSZ
Dates == {NoHeader} \cup [format : {"http_date", "iso_basic"}, t : {1099}]
AuthKinds == {"absent", "empty", "opaque", "no_prefix", "short_credential",
              "no_signed_headers", "no_signature", "well_formed"}

\* .get("x-amz-date").and_then(to_str().ok()).or_else(.get("date")..).unwrap_or("")
amz_date_of(request) ==
    IF request.x_amz_date.format # "absent" THEN request.x_amz_date ELSE request.date

\* derive_signing_key, string_to_sign and compute_signature: the hex HMAC chain
\* over the secret, the credential scope, the timestamp text and the canonical request
compute_signature(secret, scope, amz_date, canonical_request) ==
    [secret |-> secret, scope |-> scope, amz_date |-> amz_date, request |-> canonical_request]
build_canonical_request(method) == <<method, "UNSIGNED-PAYLOAD">>

\* The Authorization values of one kind: the parts a well-formed one carries
\* are its access key and the signature its sender computed (with some secret,
\* over some method).
Authorizations(request) ==
    [kind : AuthKinds \ {"well_formed"}, key : {"AKID"},
     signature : {compute_signature("secret", "scope", NoHeader, build_canonical_request("GET"))}]
    \cup [kind : {"well_formed"}, key : AccessKeys,
          signature : {compute_signature(k, "scope", amz_date_of(request), build_canonical_request(m))
                       : k \in Secrets, m \in RequestMethods}]
Requests ==
    UNION {{[method |-> r.method, x_amz_date |-> r.x_amz_date, date |-> r.date, authorization |-> a]
            : a \in Authorizations(r)}
           : r \in [method : {"GET"}, x_amz_date : AmzDates, date : Dates]}

\* .get("authorization").and_then(|v| v.to_str().ok()).unwrap_or(""): an absent
\* header and one that is not visible ASCII both read as ""
auth_header_is_empty(authorization) == authorization.kind \in {"absent", "empty", "opaque"}
\* Some(AuthInfo) only with the prefix, a five-segment Credential,
\* SignedHeaders and Signature
parse_authorization(authorization) == authorization.kind = "well_formed"

\* A verifier that takes any access key: C16 must not survive it.
access_key_matches_Any(access_key_id, config) == TRUE
\* auth_info.access_key_id != config.access_key_id
access_key_matches(access_key_id, config) == access_key_id = config.access_key_id

\* A verifier that sends an empty Authorization to the parser: C18 must not
\* survive it.
passes_unsigned_Never(authorization) == FALSE
\* if auth_header.is_empty() { return Ok(next.run(request).await); }
passes_unsigned(authorization) == auth_header_is_empty(authorization)

\* NaiveDateTime::parse_from_str(amz_date, "%Y%m%dT%H%M%SZ")
parses_as_timestamp(amz_date) == amz_date.format = "iso_basic"
\* (now - request_time).num_seconds().abs(): whole seconds, truncated toward zero
num_seconds_abs(now, request_time) ==
    LET d == now - 2 * request_time IN (IF d >= 0 THEN d ELSE -d) \div 2
too_skewed(amz_date, now) ==
    /\ amz_date.format # "absent"
    /\ parses_as_timestamp(amz_date)
    /\ num_seconds_abs(now, amz_date.t) > SkewLimit

Verdict(status, code, forwarded, checks) ==
    [status |-> status, code |-> code, forwarded |-> forwarded, checks |-> checks]

\* The middleware's answer: next.run(request) (the handler runs) or the S3Error
\* it returns, with the checks it made on the way.
auth_middleware(request, config, now) ==
    LET h == request.authorization
        amz_date == amz_date_of(request)
        computed_signature ==
            compute_signature(config.secret_access_key, "scope", amz_date,
                              build_canonical_request(request.method))
    IN IF passes_unsigned(h) THEN Verdict(200, "Ok", TRUE, <<>>)
       ELSE IF ~parse_authorization(h) THEN Verdict(403, "AccessDenied", FALSE, <<"parse">>)
       ELSE IF ~access_key_matches(h.key, config)
            THEN Verdict(403, "AccessDenied", FALSE, <<"parse", "key">>)
       ELSE IF too_skewed(amz_date, now)
            THEN Verdict(403, "AccessDenied", FALSE, <<"parse", "key", "skew">>)
       ELSE IF computed_signature # h.signature
            THEN Verdict(403, "SignatureDoesNotMatch", FALSE, <<"parse", "key", "skew", "signature">>)
       ELSE Verdict(200, "Ok", TRUE, <<"parse", "key", "skew", "signature">>)

Pending == Verdict(0, "pending", FALSE, <<>>)

AuthInit ==
    /\ arg \in [request : Requests, now : Clocks]
    /\ ret = Pending
    /\ NoStore
    /\ NoRequests
    /\ NoTasks
    /\ NoUploads

Filter ==
    /\ ret = Pending
    /\ ret' = auth_middleware(arg.request, Config, arg.now)
    /\ UNCHANGED <<arg, storeVars, handlerVars, providerVars, multipartVars>>

AuthNext == Filter

AuthSpec == AuthInit /\ [][AuthNext]_vars

Answered == ret # Pending
Checked(name) == \E n \in 1..Len(ret.checks) : ret.checks[n] = name
\* What the verifier computes from the request and the configured secret.
Expected ==
    compute_signature(Config.secret_access_key, "scope", amz_date_of(arg.request),
                      build_canonical_request(arg.request.method))
Verified ==
    /\ parse_authorization(arg.request.authorization)
    /\ arg.request.authorization.key = Config.access_key_id
    /\ arg.request.authorization.signature = Expected
Gate ==
    /\ ret.forwarded => Verified
    /\ parse_authorization(arg.request.authorization)
         /\ arg.request.authorization.key # Config.access_key_id
       => ret.status = 403 /\ ret.code = "AccessDenied" /\ ~Checked("signature")
    /\ parse_authorization(arg.request.authorization)
         /\ arg.request.authorization.signature # Expected
       => /\ ret.status = 403
          /\ Checked("signature") => ret.code = "SignatureDoesNotMatch"
    /\ ret.status = 403 => ~ret.forwarded

\* C16 (amended): a request whose Authorization header reads as non-empty text
\* reaches a handler only if the header parses, its access key is the
\* configured one and its signature is the one the verifier computes; a wrong
\* key is answered 403 AccessDenied and no signature is computed; a wrong
\* signature is answered 403, with SignatureDoesNotMatch whenever the signature
\* check is reached; a request answered 403 does not reach a handler.
C16_SigV4Gate ==
    Answered /\ ~auth_header_is_empty(arg.request.authorization) => Gate

\* C16 witness: a well-formed header with the configured key and a signature
\* made with another secret was answered SignatureDoesNotMatch.
C16_Witness ==
    /\ Answered
    /\ arg.request.authorization.kind = "well_formed"
    /\ arg.request.authorization.key = Config.access_key_id
    /\ arg.request.authorization.signature.secret # Config.secret_access_key
    /\ ret.code = "SignatureDoesNotMatch" /\ ~ret.forwarded

\* C16 (as claimed): the same of every request that carries an Authorization header.
C16_AnyAuthorizationHeader ==
    Answered /\ arg.request.authorization.kind # "absent" => Gate

\* The request is signed: its Authorization parses and names the configured key.
Signed ==
    /\ ~auth_header_is_empty(arg.request.authorization)
    /\ parse_authorization(arg.request.authorization)
    /\ arg.request.authorization.key = Config.access_key_id
\* The request carries a timestamp, and the distance of the instant it names
\* from the server clock, in half seconds.
Timestamped == amz_date_of(arg.request).format \in {"iso_basic", "http_date"}
Distance ==
    LET d == arg.now - 2 * amz_date_of(arg.request).t IN IF d >= 0 THEN d ELSE -d

\* C17 (as claimed): a signed request whose timestamp differs from the server
\* clock by more than 900 seconds is rejected, and one whose timestamp differs
\* by at most 900 seconds is not rejected for skew.
C17_Skew ==
    Answered /\ Signed /\ Timestamped =>
        /\ Distance > 2 * SkewLimit => ret.status = 403
        /\ Distance <= 2 * SkewLimit =>
              ~(ret.checks = <<"parse", "key", "skew">>)

\* C18: a request without an Authorization header, or with an empty one, is
\* forwarded to the handler and no key, skew or signature check is made,
\* whatever its timestamp headers are.
C18_UnsignedPassThrough ==
    Answered /\ arg.request.authorization.kind \in {"absent", "empty"} =>
        ret.forwarded /\ ret.status = 200 /\ ret.checks = <<>>

\* C18 witness: a request without an Authorization header whose x-amz-date is
\* 901 seconds old was forwarded.
C18_Witness ==
    /\ Answered
    /\ arg.request.authorization.kind = "absent"
    /\ arg.request.x_amz_date = [format |-> "iso_basic", t |-> 1099]
    /\ ret.forwarded

\* -------------------------------------------------------------- the chunker
\* chunk_data as a function of the bytes and the chunk size.
MaxData == 5       \* longest byte string given to the chunker
MaxChunkSize == 3  \* largest chunk size given to the chunker
ByteStrings == UNION {[1..n -> Bytes] : n \in 0..MaxData}
NotChunked == [done |-> FALSE, chunks |-> <<>>]

ChunkerInit ==
    /\ arg \in [data : ByteStrings, chunk_size : 1..MaxChunkSize]
    /\ ret = NotChunked
    /\ NoStore
    /\ NoRequests
    /\ NoTasks
    /\ NoUploads

ChunkData ==
    /\ ret = NotChunked
    /\ ret' = [done |-> TRUE, chunks |-> chunk_data(arg.data, arg.chunk_size)]
    /\ UNCHANGED <<arg, storeVars, handlerVars, providerVars, multipartVars>>

ChunkerNext == ChunkData

ChunkerSpec == ChunkerInit /\ [][ChunkerNext]_vars

RECURSIVE Concat(_)
Concat(cs) == IF cs = <<>> THEN <<>> ELSE cs[1].data \o Concat(Tail(cs))

\* C19: for every byte string B and chunk size S > 0 the chunks of
\* chunk_data(B, S), concatenated in index order, are B; their indices are
\* 0, 1, .., n-1 in order; every chunk but the last has exactly S bytes and the
\* last has between 1 and S; each size field is the payload's length; and n is
\* the ceiling of |B| / S (0 for the empty string).
C19_ChunkerTotality ==
    ret.done =>
        LET B == arg.data
            S == arg.chunk_size
            cs == ret.chunks
            n == Len(cs)
        IN /\ Concat(cs) = B
           /\ \A i \in 1..n : cs[i].index = i - 1 /\ cs[i].size = Len(cs[i].data)
           /\ \A i \in 1..(n - 1) : Len(cs[i].data) = S
           /\ n > 0 => Len(cs[n].data) \in 1..S
           /\ n * S >= Len(B) /\ (n > 0 => (n - 1) * S < Len(B))
           /\ (B = <<>>) => n = 0

\* C19 witness: five bytes cut by chunk size 2 into three chunks, the last of one byte.
C19_Witness ==
    /\ ret.done
    /\ Len(arg.data) = 5 /\ arg.chunk_size = 2
    /\ Len(ret.chunks) = 3 /\ ret.chunks[3].size = 1

\* The uploads of an empty payload that may start in this state.
EmptyUploads == {a \in UploadArgs : a.data = <<>>}
\* Outcome r of upload a made no I/O error of its own.
NoFaultIn(r) == r.faults = faults
FreeIds(rows) == {x.id : x \in {y \in rows : y.status = "free"}}
\* Outcome r stored a zero-byte object at a's key.
ZeroByteObject(r, a) ==
    /\ ~r.err
    /\ \E o \in r.objects :
          /\ o.id = r.oid /\ o.bucket_id = a.bucket_id /\ o.key = a.key
          /\ o.size = 0 /\ o.chunk_count = 0
\* Outcome r called no create_draft, left every free row in place and wrote no
\* chunk row for the object it was creating.
StoresNothing(r) ==
    /\ ~HasCall(r, "create_draft")
    /\ FreeIds(chunks) \subseteq FreeIds(r.chunks)
    /\ RowsOf(r.chunks, r.oid) = {}

\* C20 (as claimed, of uploads not preceded by any failure or I/O error): an
\* upload of an empty payload in which no I/O error occurs succeeds and creates
\* an object row with size 0 and chunk_count 0; and every upload of an empty
\* payload invokes create_draft zero times, consumes no free row and inserts no
\* chunk row.
C20_ZeroByteUpload ==
    Clean =>
        \A a \in EmptyUploads : \A r \in UploadFrom(a) :
            /\ NoFaultIn(r) => ZeroByteObject(r, a)
            /\ StoresNothing(r)

\* ------------------------------------------------------------- download
\* get_object: pipeline.download(obj.id).map_err(|e| S3Error::InternalError(..))
get_object_status(r) == IF r.err THEN 500 ELSE 200
\* The draft_uids of rows in chunk_index order, as get_draft calls.
RECURSIVE Concat2(_, _)
Concat2(uids, ds) ==
    IF uids = <<>> THEN <<>>
    ELSE (CHOOSE d \in ds : d.uid = Head(uids)).data \o Concat2(Tail(uids), ds)
IsPrefix(p, q) == Len(p) <= Len(q) /\ \A n \in 1..Len(p) : p[n] = q[n]
Fetches(r) == [n \in 1..Len(r.calls) |-> r.calls[n].uid]
OnlyGetDraft(r) == \A n \in 1..Len(r.calls) : r.calls[n].call = "get_draft"
\* Outcome r of download(object_id) from this state is as the rows prescribe;
\* an object without rows is answered with status `missing`.
DownloadsAsStored(object_id, r, missing) ==
    LET rows == RowsOf(chunks, object_id)
    IN /\ rows = {} => r.err /\ r.calls = <<>> /\ get_object_status(r) = missing
       /\ rows # {} =>
             /\ OnlyGetDraft(r)
             /\ IsPrefix(Fetches(r), DraftUids(rows))
             /\ ~r.err => /\ Fetches(r) = DraftUids(rows)
                          /\ r.data = Concat2(DraftUids(rows), drafts)

\* C21 (as claimed): a download of an object without chunk rows fails, is
\* answered 404 (NotFound) and calls no get_draft; any other download calls
\* get_draft for the rows in ascending chunk_index order, once per row when it
\* succeeds, and then returns the payloads concatenated in that order.
C21_Download ==
    \A o \in objects : \A r \in download(Ctx0, o.id) : DownloadsAsStored(o.id, r, 404)

\* ------------------------------------------------------ the subject codec
\* ChunkMetadata::encode_subject / decode_subject.  Text is a sequence of byte
\* values (ASCII); serde_json and the URL_SAFE_NO_PAD base64 engine are modelled
\* on those bytes.  The strings of the model contain no control and no
\* non-ASCII character.
SUBJECT_PREFIX == <<79, 66, 74, 77, 65, 73, 76, 58>>

\* URL_SAFE_NO_PAD: the alphabet A-Z a-z 0-9 - _
B64Char(i) ==
    CASE i < 26 -> 65 + i
      [] i >= 26 /\ i < 52 -> 97 + (i - 26)
      [] i >= 52 /\ i < 62 -> 48 + (i - 52)
      [] i = 62 -> 45
      [] OTHER -> 95
B64Index(ch) ==
    CASE ch \in 65..90 -> ch - 65
      [] ch \in 97..122 -> ch - 97 + 26
      [] ch \in 48..57 -> ch - 48 + 52
      [] ch = 45 -> 62
      [] ch = 95 -> 63
      [] OTHER -> -1

\* Engine::encode: three bytes to four characters, a rest of one or two bytes
\* to two or three characters, no padding
RECURSIVE b64_encode(_)
b64_encode(bytes) ==
    IF bytes = <<>> THEN <<>>
    ELSE LET b1 == bytes[1]
             c1 == B64Char(b1 \div 4)
         IN IF Len(bytes) = 1 THEN <<c1, B64Char((b1 % 4) * 16)>>
            ELSE LET b2 == bytes[2]
                     c2 == B64Char((b1 % 4) * 16 + b2 \div 16)
                 IN IF Len(bytes) = 2 THEN <<c1, c2, B64Char((b2 % 16) * 4)>>
                    ELSE LET b3 == bytes[3]
                         IN <<c1, c2, B64Char((b2 % 16) * 4 + b3 \div 64), B64Char(b3 % 64)>>
                            \o b64_encode(SubSeq(bytes, 4, Len(bytes)))

RECURSIVE b64_bytes(_)
b64_bytes(ix) ==
    IF Len(ix) < 2 THEN <<>>
    ELSE LET y1 == ix[1] * 4 + ix[2] \div 16
         IN IF Len(ix) = 2 THEN <<y1>>
            ELSE LET y2 == (ix[2] % 16) * 16 + ix[3] \div 4
                 IN IF Len(ix) = 3 THEN <<y1, y2>>
                    ELSE <<y1, y2, (ix[3] % 4) * 64 + ix[4]>> \o b64_bytes(SubSeq(ix, 5, Len(ix)))
\* Engine::decode: Err on a symbol outside the alphabet (padding included), on
\* a length of 1 mod 4 and on non-zero trailing bits
b64_decode(chars) ==
    LET ix == [n \in 1..Len(chars) |-> B64Index(chars[n])]
        rest == Len(chars) % 4
        last == IF chars = <<>> THEN 0 ELSE ix[Len(ix)]
    IN IF \/ \E n \in 1..Len(ix) : ix[n] = -1
          \/ rest = 1
          \/ rest = 2 /\ last % 16 # 0
          \/ rest = 3 /\ last % 4 # 0
       THEN [ok |-> FALSE, bytes |-> <<>>]
       ELSE [ok |-> TRUE, bytes |-> b64_bytes(ix)]

\* serde_json writes a u32 / u64 in decimal
RECURSIVE json_number(_)
json_number(n) == IF n < 10 THEN <<48 + n>> ELSE json_number(n \div 10) \o <<48 + (n % 10)>>
\* A serializer that writes every character as it is: C22 must not survive it.
json_escape_Raw(ch) == <<ch>>
\* serde_json escapes the quote and the backslash with a backslash
json_escape(ch) == IF ch \in {34, 92} THEN <<92, ch>> ELSE <<ch>>
RECURSIVE json_chars(_)
json_chars(str) == IF str = <<>> THEN <<>> ELSE json_escape(Head(str)) \o json_chars(Tail(str))
json_string(str) == <<34>> \o json_chars(str) \o <<34>>

\* the fields of ChunkMetadata in declaration order, and which are numbers
FieldNames == <<<<118>>, <<98, 117, 99, 107, 101, 116>>, <<107, 101, 121>>, <<99, 104, 117, 110, 107, 95, 105, 100, 120>>, <<116, 111, 116, 97, 108, 95, 99, 104, 117, 110, 107, 115>>,
                <<111, 98, 106, 101, 99, 116, 95, 105, 100>>, <<99, 104, 117, 110, 107, 95, 104, 97, 115, 104>>, <<116, 111, 116, 97, 108, 95, 115, 105, 122, 101>>, <<99, 111, 110, 116, 101, 110, 116, 95, 116, 121, 112, 101>>>>
NumberFields == {<<118>>, <<99, 104, 117, 110, 107, 95, 105, 100, 120>>, <<116, 111, 116, 97, 108, 95, 99, 104, 117, 110, 107, 115>>, <<116, 111, 116, 97, 108, 95, 115, 105, 122, 101>>}
FieldValues(m) == <<m.v, m.bucket, m.key, m.chunk_idx, m.total_chunks,
                    m.object_id, m.chunk_hash, m.total_size, m.content_type>>
json_value(name, val) == IF name \in NumberFields THEN json_number(val) ELSE json_string(val)
RECURSIVE json_members(_, _, _)
json_members(names, vals, n) ==
    IF n > Len(names) THEN <<>>
    ELSE (IF n = 1 THEN <<>> ELSE <<44>>)
         \o json_string(names[n]) \o <<58>> \o json_value(names[n], vals[n])
         \o json_members(names, vals, n + 1)
\* serde_json::to_string(self)
to_string(m) == <<123>> \o json_members(FieldNames, FieldValues(m), 1) \o <<125>>

\* format!("{}{}", SUBJECT_PREFIX, URL_SAFE_NO_PAD.encode(json.as_bytes()))
encode_subject(m) == SUBJECT_PREFIX \o b64_encode(to_string(m))

NoParse == [ok |-> FALSE, next |-> 0, str |-> <<>>, num |-> 0]
RECURSIVE parse_chars(_, _, _)
parse_chars(t, i, acc) ==
    IF i > Len(t) THEN NoParse
    ELSE IF t[i] = 34 THEN [ok |-> TRUE, next |-> i + 1, str |-> acc, num |-> 0]
    ELSE IF t[i] = 92
         THEN IF i + 1 <= Len(t) /\ t[i + 1] \in {34, 92}
              THEN parse_chars(t, i + 2, Append(acc, t[i + 1]))
              ELSE NoParse
    ELSE IF t[i] < 32 \/ t[i] > 127 THEN NoParse
    ELSE parse_chars(t, i + 1, Append(acc, t[i]))
parse_string(t, i) ==
    IF i <= Len(t) /\ t[i] = 34 THEN parse_chars(t, i + 1, <<>>) ELSE NoParse
RECURSIVE parse_digits(_, _, _)
parse_digits(t, i, acc) ==
    IF i <= Len(t) /\ t[i] \in 48..57 THEN parse_digits(t, i + 1, acc * 10 + (t[i] - 48))
    ELSE [ok |-> TRUE, next |-> i, str |-> <<>>, num |-> acc]
\* an unsigned integer: digits, no sign, no leading zero
parse_number(t, i) ==
    IF i > Len(t) \/ t[i] \notin 48..57 THEN NoParse
    ELSE IF t[i] = 48 /\ i + 1 <= Len(t) /\ t[i + 1] \in 48..57 THEN NoParse
    ELSE parse_digits(t, i, 0)

Known(name) == \E n \in 1..Len(FieldNames) : FieldNames[n] = name
Has(seen, name) == \E n \in 1..Len(seen) : seen[n].name = name
Get(seen, name) == (CHOOSE e \in {seen[n] : n \in 1..Len(seen)} : e.name = name).val
NoMeta == [v |-> 0, bucket |-> <<>>, key |-> <<>>, chunk_idx |-> 0, total_chunks |-> 0,
           object_id |-> <<>>, chunk_hash |-> <<>>, total_size |-> 0, content_type |-> <<>>]
Built(seen) ==
    [v |-> Get(seen, <<118>>).num, bucket |-> Get(seen, <<98, 117, 99, 107, 101, 116>>).str,
     key |-> Get(seen, <<107, 101, 121>>).str, chunk_idx |-> Get(seen, <<99, 104, 117, 110, 107, 95, 105, 100, 120>>).num,
     total_chunks |-> Get(seen, <<116, 111, 116, 97, 108, 95, 99, 104, 117, 110, 107, 115>>).num,
     object_id |-> Get(seen, <<111, 98, 106, 101, 99, 116, 95, 105, 100>>).str, chunk_hash |-> Get(seen, <<99, 104, 117, 110, 107, 95, 104, 97, 115, 104>>).str,
     total_size |-> Get(seen, <<116, 111, 116, 97, 108, 95, 115, 105, 122, 101>>).num, content_type |-> Get(seen, <<99, 111, 110, 116, 101, 110, 116, 95, 116, 121, 112, 101>>).str]
JsonErr == [ok |-> FALSE, meta |-> NoMeta]
\* The derived Deserialize of the struct: members in any order, unknown
\* members skipped, a duplicate or a missing field is an error, nothing may
\* follow the closing brace.
RECURSIVE parse_members(_, _, _)
parse_members(t, i, seen) ==
    LET name == parse_string(t, i)
    IN IF ~name.ok \/ name.next > Len(t) \/ t[name.next] # 58 THEN JsonErr
       ELSE LET at == name.next + 1
                val == IF Known(name.str)
                       THEN (IF name.str \in NumberFields THEN parse_number(t, at)
                             ELSE parse_string(t, at))
                       ELSE (IF at <= Len(t) /\ t[at] = 34 THEN parse_string(t, at)
                             ELSE parse_number(t, at))
                seen2 == IF Known(name.str)
                         THEN Append(seen, [name |-> name.str, val |-> val]) ELSE seen
            IN IF ~val.ok \/ val.next > Len(t) THEN JsonErr
               ELSE IF Known(name.str) /\ Has(seen, name.str) THEN JsonErr
               ELSE IF t[val.next] = 44 THEN parse_members(t, val.next + 1, seen2)
               ELSE IF t[val.next] = 125 /\ val.next = Len(t)
                       /\ \A n \in 1..Len(FieldNames) : Has(seen2, FieldNames[n])
                    THEN [ok |-> TRUE, meta |-> Built(seen2)]
               ELSE JsonErr
\* serde_json::from_slice::<ChunkMetadata>(&json_bytes)
from_slice(t) ==
    IF Len(t) < 2 \/ t[1] # 123 THEN JsonErr ELSE parse_members(t, 2, <<>>)

starts_with(str, prefix) ==
    Len(str) >= Len(prefix) /\ SubSeq(str, 1, Len(prefix)) = prefix
Decoded(ok, meta, error) == [ok |-> ok, meta |-> meta, error |-> error]
\* strip_prefix(SUBJECT_PREFIX)?, URL_SAFE_NO_PAD.decode(..)?, serde_json::from_slice(..)?
decode_subject(subject) ==
    IF ~starts_with(subject, SUBJECT_PREFIX)
    THEN Decoded(FALSE, NoMeta, "Subject does not have OBJMAIL: prefix")
    ELSE LET json_bytes == b64_decode(SubSeq(subject, Len(SUBJECT_PREFIX) + 1, Len(subject)))
         IN IF ~json_bytes.ok THEN Decoded(FALSE, NoMeta, "Failed to base64-decode subject")
            ELSE LET metadata == from_slice(json_bytes.bytes)
                 IN IF ~metadata.ok
                    THEN Decoded(FALSE, NoMeta, "Failed to deserialize chunk metadata from JSON")
                    ELSE Decoded(TRUE, metadata.meta, "")

\* The manifests given to the encoder: keys with a quote, a backslash, none
\* and one character make texts of every length modulo 3.
Manifests ==
    [v : {1, 2}, bucket : {<<98>>}, key : {<<>>, <<107>>, <<97, 34, 98>>, <<97, 92>>},
     chunk_idx : {0, 10}, total_chunks : {1, 12}, object_id : {<<105, 100>>},
     chunk_hash : {<<104>>}, total_size : {0, 105}, content_type : {<<116, 47, 120>>}]
AManifest == [v |-> 1, bucket |-> <<98>>, key |-> <<107>>, chunk_idx |-> 0, total_chunks |-> 1,
              object_id |-> <<105, 100>>, chunk_hash |-> <<104>>, total_size |-> 0, content_type |-> <<116, 47, 120>>]
ASubject == encode_subject(AManifest)
AText == to_string(AManifest)
\* Subjects given to the decoder directly: without the prefix, and with the
\* prefix and a body that is not the encoding of a manifest.
RawSubjects ==
    {<<>>,
     b64_encode(AText),
     <<111, 98, 106, 109, 97, 105, 108, 58>> \o b64_encode(AText),
     <<32>> \o ASubject,
     SubSeq(ASubject, 2, Len(ASubject)),
     SUBJECT_PREFIX,
     SUBJECT_PREFIX \o <<33, 33>>,
     SUBJECT_PREFIX \o b64_encode(AText) \o <<61>>,
     SubSeq(ASubject, 1, Len(ASubject) - 1),
     SUBJECT_PREFIX \o b64_encode(<<123, 125>>),
     SUBJECT_PREFIX \o b64_encode(SubSeq(AText, 1, Len(AText) - 1)),
     SUBJECT_PREFIX \o b64_encode(AText \o <<120>>),
     SUBJECT_PREFIX \o b64_encode(SubSeq(AText, 1, Len(AText) - 1) \o <<44, 34, 122, 34, 58, 55, 125>>),
     SUBJECT_PREFIX \o b64_encode(SubSeq(AText, 1, Len(AText) - 1) \o <<44, 34, 118, 34, 58, 49, 125>>)}

NotEncoded == [encoded |-> FALSE, subject |-> <<>>, decoded |-> FALSE,
               result |-> Decoded(FALSE, NoMeta, "")]

SubjectInit ==
    /\ arg \in [kind : {"manifest"}, manifest : Manifests, subject : {<<>>}]
               \cup [kind : {"subject"}, manifest : {NoMeta}, subject : RawSubjects]
    /\ ret = NotEncoded
    /\ NoStore
    /\ NoRequests
    /\ NoTasks
    /\ NoUploads

\* meta.encode_subject()
EncodeSubject ==
    /\ arg.kind = "manifest"
    /\ ~ret.encoded
    /\ ret' = [ret EXCEPT !.encoded = TRUE, !.subject = encode_subject(arg.manifest)]
    /\ UNCHANGED <<arg, storeVars, handlerVars, providerVars, multipartVars>>

\* The subject the decoder is given: the encoder's output, or the raw one.
Given == IF arg.kind = "manifest" THEN ret.subject ELSE arg.subject

\* ChunkMetadata::decode_subject(&subject)
DecodeSubject ==
    /\ arg.kind = "manifest" => ret.encoded
    /\ ~ret.decoded
    /\ ret' = [ret EXCEPT !.decoded = TRUE, !.result = decode_subject(Given)]
    /\ UNCHANGED <<arg, storeVars, handlerVars, providerVars, multipartVars>>

SubjectNext == EncodeSubject \/ DecodeSubject

SubjectSpec == SubjectInit /\ [][SubjectNext]_vars

\* C22: for every manifest m, decode_subject(encode_subject(m)) succeeds and
\* equals m field by field; encode_subject(m) starts with OBJMAIL:; and
\* decode_subject fails on every input that does not start with OBJMAIL:.
C22_SubjectRoundTrip ==
    /\ ret.encoded => starts_with(ret.subject, SUBJECT_PREFIX)
    /\ ret.decoded /\ arg.kind = "manifest" =>
          ret.result.ok /\ ret.result.meta = arg.manifest
    /\ ret.decoded /\ ~starts_with(Given, SUBJECT_PREFIX) => ~ret.result.ok

\* C22 witness: a manifest whose key holds a quote went through the encoder
\* and the decoder, and a subject without the prefix was refused.
C22_Witness ==
    \/ /\ ret.decoded /\ arg.kind = "manifest" /\ arg.manifest.key = <<97, 34, 98>>
       /\ ret.result.ok /\ ret.result.meta.key = <<97, 34, 98>>
    \/ /\ ret.decoded /\ arg.kind = "subject" /\ arg.subject = b64_encode(AText)
       /\ ~ret.result.ok

\* C23 (as claimed): decode_subject never returns a manifest whose version is
\* not 1: a well-formed subject with another version is refused.
C23_SchemaVersion ==
    ret.decoded /\ ret.result.ok => ret.result.meta.v = 1

\* ----------------------------------------------------------- create_bucket
\* PUT /{bucket} by concurrent requests: the handler looks the name up and
\* inserts the row in two DB round trips, with no lock and no transaction.
BucketNames == {"mybucket", "photos", "ab"}
NameLen == [mybucket |-> 8, photos |-> 6, ab |-> 2]
CreateRequest(name) == [handler |-> "create_bucket", pc |-> "find_existing",
                        name |-> name, status |-> 0]

\* buckets.name unique_key(): an insert of a name a row already has is refused.
buckets_name_key(bs, name) == \A b \in bs : b.name # name

\* create_bucket: the length check, then bucket::Entity::find().filter(Name.eq).one()
FindExisting(r) ==
    /\ reqs[r].pc = "find_existing"
    /\ IF NameLen[reqs[r].name] < 3 \/ NameLen[reqs[r].name] > 63
       THEN reqs' = Respond(r, 400) /\ UNCHANGED storeVars
       ELSE \/ DbError(r)
            \/ /\ LET existing == {b \in buckets : b.name = reqs[r].name}
                  IN reqs' = IF existing # {} THEN Respond(r, 409) ELSE Goto(r, "insert")
               /\ UNCHANGED storeVars
    /\ UNCHANGED <<pipeline, providerVars, callVars, multipartVars>>

\* create_bucket: new_bucket.insert(&state.db), every Err mapped to InternalError
InsertBucket(r) ==
    /\ reqs[r].pc = "insert"
    /\ \/ DbError(r)
       \/ /\ IF buckets_name_key(buckets, reqs[r].name)
             THEN /\ buckets' = buckets \cup {[id |-> new_v4(Ctx0), name |-> reqs[r].name]}
                  /\ reqs' = Respond(r, 200)
             ELSE /\ buckets' = buckets
                  /\ reqs' = Respond(r, 500)
          /\ UNCHANGED <<chunkSize, objects, chunks, drafts, nextUid, faults, ops, failed>>
    /\ UNCHANGED <<pipeline, providerVars, callVars, multipartVars>>

BucketsInit ==
    /\ chunkSize = 1
    /\ objects = {}
    /\ chunks = {}
    /\ buckets = UserBuckets
    /\ drafts = {}
    /\ nextUid = 1
    /\ faults = 0
    /\ ops = 0
    /\ failed = FALSE
    /\ reqs \in [Reqs -> {CreateRequest(n) : n \in BucketNames}]
    /\ pipeline = 0
    /\ NoTasks
    /\ NoUploads
    /\ NoCall

BucketsNext == \E r \in Reqs : FindExisting(r) \/ InsertBucket(r)

BucketsSpec == BucketsInit /\ [][BucketsNext]_vars

UniqueNames == \A b1, b2 \in buckets : b1.name = b2.name => b1 = b2
Answer(r) == IF reqs[r].pc = "done" THEN reqs[r].status ELSE 0
Named(r, name) == reqs[r].name = name /\ NameLen[name] \in 3..63

\* C24 (as claimed): no two bucket rows share a name; a create_bucket for a
\* name that has a row is answered 409 BucketAlreadyOwnedByYou; and of the
\* requests for one name, interleaved or not, exactly one is answered 200 and
\* every other 409 (no DB fault).
C24_BucketNameUnique ==
    /\ UniqueNames
    /\ faults = 0 =>
          \A r \in Reqs : Named(r, reqs[r].name) /\ reqs[r].pc = "done" =>
              /\ Answer(r) \in {200, 409}
              /\ Answer(r) = 200 =>
                    /\ \A b \in UserBuckets : b.name # reqs[r].name
                    /\ \A q \in Reqs \ {r} : Named(q, reqs[r].name) => Answer(q) # 200

\* ---------------------------------------------------------------- multipart
\* The multipart handlers, each taken as one step, one request at a time.
MaxCalls == 4      \* multipart requests in one behaviour
MaxParts == 2      \* part numbers 1..MaxParts
PartNumbers == 1..MaxParts
PartBodies == {<<b>> : b \in Bytes}
\* the <Part> lists a CompleteMultipartUpload body carries
PartLists == UNION {[1..n -> PartNumbers] : n \in 1..MaxParts}
\* Uuid::new_v4() of the n-th request: never drawn twice
UploadId(n) == 100 + n

\* The state a handler runs in and ends in: the pipeline's context, the
\* multipart tables, the temp files, and the response.
M0 == [c |-> Ctx0, uploads |-> multipart_uploads, parts |-> multipart_parts,
       files |-> temp_files, status |-> 0, error |-> ""]
Answers(m, status, error) == [m EXCEPT !.status = status, !.error = error]
\* a DB round trip or a file operation of the handler fails: `?` returns 500
Fails(m) ==
    IF CanFault(m.c) THEN {Answers([m EXCEPT !.c.faults = @ + 1], 500, "InternalError")}
    ELSE {}
\* a failure the handler ignores: `.ok()`
Ignored(m) == IF CanFault(m.c) THEN {[m EXCEPT !.c.faults = @ + 1]} ELSE {}

UploadRows(m, upload_id) == {u \in m.uploads : u.id = upload_id}
PartRows(m, upload_id) == {x \in m.parts : x.upload_id = upload_id}
\* temp_dir.join(format!("{}-{}", upload_id, part_number))
TempPath(upload_id, part_number) == <<upload_id, part_number>>
FileAt(m, path) == {f \in m.files : f.path = path}
Written(m, path, data) ==
    [m EXCEPT !.files = (@ \ FileAt(m, path)) \cup {[path |-> path, data |-> data]}]

\* idx_multipart_parts_upload_part: unique (upload_id, part_number)
idx_multipart_parts_upload_part(rows, upload_id, part_number) ==
    \A x \in rows : ~(x.upload_id = upload_id /\ x.part_number = part_number)

\* POST /{bucket}/{key}?uploads
create_multipart_upload(m, id, key) ==
    Fails(m) \cup
    (LET found == {b \in m.c.buckets : b.name = BucketName}
     IN IF found = {} THEN {Answers(m, 404, "NoSuchBucket")}
        ELSE Fails(m) \cup
             {Answers([m EXCEPT !.uploads = @ \cup {[id |-> id, bucket_id |-> b.id, key |-> key]}],
                      200, "") : b \in found})

\* PUT /{bucket}/{key}?partNumber={n}&uploadId={id}
upload_part(m0, upload_id, part_number, body) ==
    LET path == TempPath(upload_id, part_number)
        insert(m) ==
            Fails(m) \cup
            {IF idx_multipart_parts_upload_part(m.parts, upload_id, part_number)
             THEN Answers([m EXCEPT !.parts = @ \cup
                              {[upload_id |-> upload_id, part_number |-> part_number,
                                size |-> Len(body), etag |-> ETag(body),
                                temp_path |-> path]}], 200, "")
             ELSE Answers(m, 500, "InternalError")}
        upsert(m) ==
            UNION {insert(d) : d \in
                     {[m EXCEPT !.parts = {x \in @ : ~(x.upload_id = upload_id
                                                       /\ x.part_number = part_number)}]}
                     \cup Ignored(m)}
        \* tokio::fs::write: a failed write leaves the old file or a truncated one
        write(m) ==
            Fails(m) \cup {Written(f, path, <<>>) : f \in Fails(m)}
            \cup upsert(Written(m, path, body))
    IN Fails(m0) \cup
       (IF UploadRows(m0, upload_id) = {} THEN {Answers(m0, 404, "NoSuchUpload")}
        ELSE Fails(m0) \cup write(m0))

\* tokio::fs::remove_file(temp_path).await.ok() for each stored part
RECURSIVE remove_files(_, _)
remove_files(m, paths) ==
    IF paths = {} THEN {m}
    ELSE LET path == CHOOSE x \in paths : TRUE
         IN UNION {remove_files(d, paths \ {path}) : d \in
                     {[m EXCEPT !.files = @ \ FileAt(m, path)]} \cup Ignored(m)}
\* delete_many on multipart_parts, then delete_by_id on multipart_uploads (the
\* part rows go with the upload row: ON DELETE CASCADE), each `.ok()`. The two
\* statements run back to back on one connection: an outage that fails the
\* first fails the second too, and is one fault.
delete_records(m, upload_id) ==
    LET parts_deleted == [m EXCEPT !.parts = @ \ PartRows(m, upload_id)]
        upload_deleted(d) == [d EXCEPT !.uploads = @ \ UploadRows(d, upload_id),
                                       !.parts = @ \ PartRows(d, upload_id)]
    IN {upload_deleted(parts_deleted)}
       \cup Ignored(parts_deleted)
       \cup {upload_deleted(d) : d \in Ignored(m)}
       \cup Ignored(m)
cleanup(m, upload_id) ==
    UNION {delete_records(d, upload_id)
           : d \in remove_files(m, {x.temp_path : x \in PartRows(m, upload_id)})}

\* windows(2): window[0].part_number >= window[1].part_number
Ascending(list) == \A n \in 1..(Len(list) - 1) : list[n] < list[n + 1]

\* the loop over complete_request.parts: find the stored part, read its file
RECURSIVE read_parts(_, _, _, _, _)
read_parts(m, stored_parts, list, n, combined_data) ==
    IF n > Len(list) THEN {[m EXCEPT !.c.data = combined_data]}
    ELSE LET stored == {x \in stored_parts : x.part_number = list[n]}
         IN IF stored = {} THEN {Answers(m, 400, "InvalidPart")}
            ELSE Fails(m) \cup
                 UNION {IF FileAt(m, x.temp_path) = {} THEN {Answers(m, 500, "InternalError")}
                        ELSE UNION {read_parts(m, stored_parts, list, n + 1,
                                               combined_data \o f.data)
                                    : f \in FileAt(m, x.temp_path)}
                        : x \in stored}

\* POST /{bucket}/{key}?uploadId={id}
complete_multipart_upload(m0, upload_id, list) ==
    LET store(m, up) ==
            Fails(m) \cup
            (IF \A b \in m.c.buckets : b.id # up.bucket_id
             THEN {Answers(m, 404, "NoSuchBucket")}
             ELSE UNION {IF c.err THEN {Answers([m EXCEPT !.c = c], 500, "InternalError")}
                         ELSE {Answers(d, 200, "") : d \in cleanup([m EXCEPT !.c = c], upload_id)}
                         : c \in upload(m.c, up.bucket_id, up.key, m.c.data,
                                        UserAttrs[up.key].content_type,
                                        UserAttrs[up.key].metadata)})
        concatenate(m, up) ==
            Fails(m) \cup
            UNION {IF d.status # 0 THEN {d} ELSE store(d, up)
                   : d \in read_parts(m, PartRows(m, upload_id), list, 1, <<>>)}
    IN Fails(m0) \cup
       (IF UploadRows(m0, upload_id) = {} THEN {Answers(m0, 404, "NoSuchUpload")}
        ELSE IF ~Ascending(list) THEN {Answers(m0, 400, "InvalidPartOrder")}
        ELSE UNION {concatenate(m0, up) : up \in UploadRows(m0, upload_id)})

\* DELETE /{bucket}/{key}?uploadId={id}
abort_multipart_upload(m, upload_id) ==
    Fails(m) \cup {Answers(d, 204, "") : d \in cleanup(m, upload_id)}

MultipartRequest(handler, upload_id, part_number, data, list) ==
    [handler |-> handler, upload_id |-> upload_id, part_number |-> part_number,
     data |-> data, parts |-> list, status |-> 0, error |-> ""]
\* The handler returns: the tables, the mailbox and the files stay as it left
\* them, and the request is answered.
Handled(q, m) ==
    /\ ops < MaxCalls
    /\ ops' = ops + 1
    /\ Commit(m.c)
    /\ multipart_uploads' = m.uploads
    /\ multipart_parts' = m.parts
    /\ temp_files' = m.files
    /\ reqs' = <<[q EXCEPT !.status = m.status, !.error = m.error]>>
    /\ UNCHANGED <<pipeline, providerVars, callVars>>

CreateMultipartUpload(key) ==
    \E m \in create_multipart_upload(M0, UploadId(ops), key) :
        Handled(MultipartRequest("create_multipart_upload", UploadId(ops), 0, <<>>, <<>>), m)
UploadPart(upload_id, part_number, body) ==
    \E m \in upload_part(M0, upload_id, part_number, body) :
        Handled(MultipartRequest("upload_part", upload_id, part_number, body, <<>>), m)
CompleteMultipartUpload(upload_id, list) ==
    \E m \in complete_multipart_upload(M0, upload_id, list) :
        Handled(MultipartRequest("complete_multipart_upload", upload_id, 0, <<>>, list), m)
AbortMultipartUpload(upload_id) ==
    \E m \in abort_multipart_upload(M0, upload_id) :
        Handled(MultipartRequest("abort_multipart_upload", upload_id, 0, <<>>, <<>>), m)

\* the uploadId values a client can hold: those handed out so far
UploadIds == {UploadId(n) : n \in 0..(ops - 1)}

MultipartInit ==
    /\ chunkSize \in ChunkSizes
    /\ objects = {}
    /\ chunks = {}
    /\ buckets = UserBuckets
    /\ drafts = {}
    /\ nextUid = 1
    /\ faults = 0
    /\ ops = 0
    /\ failed = FALSE
    /\ reqs = <<>>
    /\ pipeline = 0
    /\ NoTasks
    /\ NoCall
    /\ multipart_uploads = {}
    /\ multipart_parts = {}
    /\ temp_files = {}

MultipartNext ==
    \/ \E k \in Keys : CreateMultipartUpload(k)
    \/ \E u \in UploadIds, n \in PartNumbers, body \in PartBodies : UploadPart(u, n, body)
    \/ \E u \in UploadIds, list \in PartLists : CompleteMultipartUpload(u, list)
    \/ \E u \in UploadIds : AbortMultipartUpload(u)

MultipartSpec == MultipartInit /\ [][MultipartNext]_vars

\* A CompleteMultipartUpload step, for an upload that exists, with list `q.parts`.
Completes(q) ==
    /\ ops' = ops + 1
    /\ q = reqs'[1]
    /\ q.handler = "complete_multipart_upload"
    /\ \E u \in multipart_uploads : u.id = q.upload_id
NeverUploaded(q) ==
    \E n \in 1..Len(q.parts) :
        \A x \in multipart_parts : ~(x.upload_id = q.upload_id /\ x.part_number = q.parts[n])
NothingChanged == UNCHANGED <<objects, chunks, buckets, drafts, nextUid, multipartVars>>
StrictlyAscending(list) == \A i, j \in 1..Len(list) : i < j => list[i] < list[j]
Refused(q) ==
    IF ~StrictlyAscending(q.parts) THEN "InvalidPartOrder"
    ELSE IF NeverUploaded(q) THEN "InvalidPart" ELSE ""

\* C25 (as claimed): a CompleteMultipartUpload whose part list is not strictly
\* ascending fails with InvalidPartOrder, one whose list is ascending but names
\* a part that was never uploaded fails with InvalidPart (when no I/O fault
\* strikes the request itself), and in both cases, fault or not, nothing
\* changes: no object row, chunk row or draft is written, and the upload
\* record, its part rows and the temp files stay.
C25_PartOrder ==
    [][\A q \in {reqs'[n] : n \in DOMAIN reqs'} :
          Completes(q) /\ Refused(q) # "" =>
              /\ NothingChanged
              /\ q.status \in {400, 500}
              /\ faults' = faults => q.status = 400 /\ q.error = Refused(q)]_vars

\* ------------------------------------------------------------ list_objects_v2
\* GET /{bucket}?list-type=2 over a bucket's keys; keys, prefix and delimiter
\* are texts (sequences of ASCII codes).
ListedKeys == {<<97, 47, 98>>, <<97, 47, 99>>, <<100>>, <<97, 47, 98, 47, 99>>}
Prefixes == {<<>>, <<97, 47>>, <<97>>, <<100>>}
NoDelimiter == <<0>>      \* params.delimiter is None
Delimiters == {NoDelimiter, <<47>>}
MaxKeys == {1000, 1}      \* max-keys absent (unwrap_or(1000)), and 1

\* str::find: the offset of the first occurrence of pat in str, -1 for None
find(str, pat) ==
    LET hits == {i \in 0..(Len(str) - Len(pat)) : SubSeq(str, i + 1, i + Len(pat)) = pat}
    IN IF hits = {} THEN -1 ELSE CHOOSE i \in hits : \A j \in hits : i <= j
\* A listing that looks for the delimiter in the whole key: C26 must not
\* survive it.
after_prefix_WholeKey(key, prefix) == key
\* &obj.key[prefix.len()..]
after_prefix(key, prefix) == SubSeq(key, Len(prefix) + 1, Len(key))
\* format!("{}{}", prefix, &after_prefix[..=pos])
common_prefix(key, prefix, pos) == prefix \o SubSeq(after_prefix(key, prefix), 1, pos + 1)
\* does the loop turn the key into a common prefix
Grouped(key, prefix, delimiter) ==
    delimiter # NoDelimiter /\ find(after_prefix(key, prefix), delimiter) # -1

\* the order of String (bytewise), as BTreeSet iterates
RECURSIVE Before(_, _)
Before(s, t) ==
    IF s = <<>> THEN t # <<>>
    ELSE IF t = <<>> THEN FALSE
    ELSE IF Head(s) # Head(t) THEN Head(s) < Head(t)
    ELSE Before(Tail(s), Tail(t))
RECURSIVE into_iter(_)
into_iter(set) ==
    IF set = {} THEN <<>>
    ELSE LET first == CHOOSE s \in set : \A t \in set \ {s} : Before(s, t)
         IN <<first>> \o into_iter(set \ {first})

\* query.all(): the rows matching the prefix, in an order the query does not fix
Orders(set) ==
    {f \in [1..Cardinality(set) -> set] : \A i, j \in 1..Cardinality(set) : f[i] = f[j] => i = j}
RECURSIVE push_all(_, _, _, _)
push_all(rows, n, prefix, delimiter) ==
    IF n > Len(rows) THEN <<>>
    ELSE (IF Grouped(rows[n], prefix, delimiter) THEN <<>> ELSE <<rows[n]>>)
         \o push_all(rows, n + 1, prefix, delimiter)
Listing(contents, common_prefixes, is_truncated, key_count) ==
    [called |-> TRUE, contents |-> contents, common_prefixes |-> common_prefixes,
     is_truncated |-> is_truncated, key_count |-> key_count]
NotListed == [called |-> FALSE, contents |-> <<>>, common_prefixes |-> <<>>,
              is_truncated |-> FALSE, key_count |-> 0]
\* list_objects_v2 on the rows in the order the query returned them
list_objects_v2(rows, prefix, delimiter, max_keys) ==
    LET contents == push_all(rows, 1, prefix, delimiter)
        common_prefixes_set ==
            {common_prefix(rows[n], prefix, find(after_prefix(rows[n], prefix), delimiter))
                : n \in {i \in 1..Len(rows) : Grouped(rows[i], prefix, delimiter)}}
    IN Listing(SubSeq(contents, 1, Min(Len(contents), max_keys)),
               into_iter(common_prefixes_set),
               Len(contents) > max_keys,
               Min(Len(contents), max_keys))

ListInit ==
    /\ arg \in [keys : SUBSET ListedKeys, prefix : Prefixes, delimiter : Delimiters,
                max_keys : MaxKeys]
    /\ ret = NotListed
    /\ NoStore
    /\ NoRequests
    /\ NoTasks
    /\ NoUploads

ListObjectsV2 ==
    /\ ~ret.called
    /\ \E rows \in Orders({k \in arg.keys : arg.prefix = <<>> \/ starts_with(k, arg.prefix)}) :
          ret' = list_objects_v2(rows, arg.prefix, arg.delimiter, arg.max_keys)
    /\ UNCHANGED <<arg, storeVars, handlerVars, providerVars, multipartVars>>

ListNext == ListObjectsV2

ListSpec == ListInit /\ [][ListNext]_vars

Range(seq) == {seq[n] : n \in 1..Len(seq)}
\* the bucket of the claim, listed with a delimiter and without a limit
Listed(prefix) ==
    /\ ret.called
    /\ arg.keys = {<<97, 47, 98>>, <<97, 47, 99>>, <<100>>}
    /\ arg.prefix = prefix
    /\ arg.delimiter = <<47>>
    /\ arg.max_keys = 1000

\* C26 (as claimed): for a bucket holding a/b, a/c and d, ListObjectsV2 with
\* prefix "a/" and delimiter "/" yields CommonPrefixes = [a/] and no Contents.
C26_DelimiterAsClaimed ==
    Listed(<<97, 47>>) => ret.common_prefixes = <<<<97, 47>>>> /\ ret.contents = <<>>

\* C26 (amended): for a bucket holding a/b, a/c and d, ListObjectsV2 with
\* prefix "a/" and delimiter "/" yields Contents a/b and a/c (in the order the
\* query returned the rows) and no CommonPrefixes: the delimiter is looked for
\* after the prefix only.  It is with the empty prefix that the listing yields
\* CommonPrefixes = [a/], with Contents = [d].
C26_Delimiter ==
    /\ Listed(<<97, 47>>) =>
          /\ ret.common_prefixes = <<>>
          /\ Len(ret.contents) = 2 /\ Range(ret.contents) = {<<97, 47, 98>>, <<97, 47, 99>>}
          /\ ret.key_count = 2 /\ ~ret.is_truncated
    /\ Listed(<<>>) =>
          /\ ret.common_prefixes = <<<<97, 47>>>>
          /\ ret.contents = <<<<100>>>>

\* C26 witness: the bucket of the claim was listed with prefix "a/" and
\* delimiter "/", the rows having come back as a/c, a/b.
C26_Witness == Listed(<<97, 47>>) /\ ret.contents = <<<<97, 47, 99>>, <<97, 47, 98>>>>

\* ------------------------------------------------- the states of a chunk row
\* the objects at the recycling key of the recycling bucket
RecyclingObjects(os, bs) ==
    {o \in os : o.key = RecyclingKey
                /\ \E b \in bs : b.id = o.bucket_id /\ b.name = RecyclingBucketName}
RowWith(rows, id) == {x \in rows : x.id = id}
\* every row is active or free, and a free row belongs to the recycling object
StatusesOf(rows, os, bs) ==
    \A x \in rows :
        /\ x.status \in {"active", "free"}
        /\ x.status = "free" => \E o \in RecyclingObjects(os, bs) : o.id = x.object_id
\* what one operation may do to the rows
RowStep ==
    /\ \A y \in chunks' : RowWith(chunks, y.id) = {} => y.status = "active"
    /\ \A x \in chunks : \A y \in RowWith(chunks', x.id) :
          x.status # y.status => x.status = "active" /\ y.status = "free"
    /\ \A x \in chunks :
          x.status = "free" /\ RowWith(chunks', x.id) = {} => nextUid' > nextUid

\* DELETE /recycling-bin/free-chunks-<account>: delete_object finds the bucket
\* and the object by name like any other and calls pipeline.delete_by_key.
DeleteRecyclingObject ==
    \E b \in buckets : b.name = RecyclingBucketName /\ Delete(b.id, RecyclingKey)
ClientsNext == Next \/ DeleteRecyclingObject
\* the service with clients that also address the recycling object
ClientsSpec == Init /\ [][ClientsNext]_vars

\* C27 (as claimed): a chunk row's status is always active or free; a row is
\* created active; the only change of status is from active to free; a free
\* row never becomes active again and disappears only in an operation that
\* appended a draft (an upload consuming it); every free row belongs to the
\* recycling object.
C27_ChunkRowStates ==
    [][StatusesOf(chunks', objects', buckets') /\ RowStep]_vars

\* --------------------------------------------------- delete and the mailbox
\* the outcomes of delete(object_id) started in the current state
DeleteById(object_id) == IF ops < MaxOps THEN delete(Ctx0, object_id) ELSE {}
MailboxUntouched(r) == r.calls = <<>> /\ r.drafts = drafts /\ r.nextUid = nextUid
\* a row of the object is the only active row with its hash
LastReference(o) ==
    \E x \in RowsOf(chunks, o.id) :
        \A y \in chunks : y.hash = x.hash /\ y.status = "active" => y.object_id = o.id

RECURSIVE cancel_points(_, _, _, _)
cancel_points(c, object_id, todo, flipped) ==
    (IF flipped THEN {c} ELSE {})
    \cup UNION {UNION {IF d.err THEN {}
                       ELSE cancel_points(d, object_id, todo \ {r},
                                          flipped \/ d.chunks # c.chunks)
                       : d \in delete_chunk(c, object_id, r)}
                : r \in todo}
CancelledDelete(a) ==
    IF ops < MaxOps
    THEN UNION {cancel_points(Ctx0, o.id, RowsOf(chunks, o.id), FALSE)
                : o \in ObjectsAt(objects, a.bucket_id, a.key)}
    ELSE {}

\* The data-model invariants and the readability of the objects at user keys,
\* in the tables and mailbox of context c.
ValidState(c) ==
    /\ \A o \in {o \in c.objects : o.bucket_id \in BucketIds} :
          LET rows == {x \in RowsOf(c.chunks, o.id) : x.status = "active"}
          IN /\ Cardinality(rows) = o.chunk_count
             /\ {x.chunk_index : x \in rows} = 0..(o.chunk_count - 1)
             /\ \A d \in download(FaultFree(After(c)), o.id) :
                   ~d.err /\ Len(d.data) = o.size /\ ETag(d.data) = o.etag
    /\ \A x \in c.chunks :
          x.status = "free" =>
              \E o \in RecyclingObjects(c.objects, c.buckets) : o.id = x.object_id

\* C29 (as claimed): when no operation has failed before and the state is
\* valid, the state a delete leaves behind when it is cancelled after one or
\* more rows were flipped to free and before the chunk-row mass delete is
\* valid: chunk_count is the number of active rows of every object at a key,
\* their indices are contiguous, free rows belong to the recycling object,
\* and every object at a key downloads its full payload.
C29_CancelledDelete ==
    Clean /\ ValidState(Ctx0) =>
        \A a \in DeleteArgs : \A r \in CancelledDelete(a) : ValidState(r)

\* ------------------------------------------------------ reconnect on failure
\* the commands call t has sent as part p, in the order it sent them
SentBy(t, p) ==
    LET mine(e) == e.task = t /\ e.part = p
        sel == SelectSeq(wire, mine)
    IN [n \in 1..Len(sel) |-> sel[n].cmd]
PositionsOf(t, p) == {k \in 1..Len(wire) : wire[k].task = t /\ wire[k].part = p}
\* a session had been cached before position k: a connect had completed
Cached(k) == \E j \in 1..(k - 1) : wire[j].cmd = "CREATE" /\ wire[j].part = "ensure_session"
\* what ensure_session may have sent: the probe, the reconnect, or both
Probes == {<<>>, <<"NOOP">>, <<"NOOP", "LOGIN">>, <<"NOOP", "LOGIN", "CREATE">>,
           <<"LOGIN">>, <<"LOGIN", "CREATE">>}
\* ensure_session returned Ok: the probe passed, or the reconnect completed
Ensured(probe) == probe \in {<<"NOOP">>, <<"NOOP", "LOGIN", "CREATE">>, <<"LOGIN", "CREATE">>}
ReconnectOnFailure(t) ==
    LET probe == SentBy(t, "ensure_session")
        own == SentBy(t, tasks[t].method)
        first == CHOOSE k \in PositionsOf(t, "ensure_session") :
                    \A j \in PositionsOf(t, "ensure_session") : k <= j
    IN /\ probe \in Probes
       /\ probe # <<>> => (probe[1] = "NOOP" <=> Cached(first))
       /\ IsPrefix(own, Commands[tasks[t].method])
       /\ own # <<>> =>
             /\ Ensured(probe)
             /\ \A i \in PositionsOf(t, "ensure_session"), k \in PositionsOf(t, tasks[t].method) :
                   i < k
       /\ probe # <<>> /\ probe[Len(probe)] = "LOGIN" /\ tasks[t].pc # "create" =>
             tasks[t].pc = "done" /\ tasks[t].result = "Err" /\ own = <<>>
       /\ tasks[t].pc = "done" /\ tasks[t].result = "Ok" => own = Commands[tasks[t].method]

\* C30: every provider call first probes the cached session with NOOP, or
\* logs in when none is cached; it reconnects (LOGIN, CREATE) at most once, and
\* does so when its NOOP failed; its own commands are sent only after its
\* ensure_session succeeded, hence after its own reconnect when it made one; a
\* call whose reconnect failed fails without sending a command of its own; and
\* the call's own commands are sent at most once each, in order, never again
\* after a failure.
C30_ReconnectOnFailure == \A t \in Tasks : ReconnectOnFailure(t)

\* C30 witness: one call found the session dead, reconnected and completed
\* its commands; another's reconnect failed and it sent none of its own.
C30_Witness ==
    /\ \E t \in Tasks : /\ SentBy(t, "ensure_session") = <<"NOOP", "LOGIN", "CREATE">>
                        /\ tasks[t].result = "Ok" /\ tasks[t].method = "create_draft"
    /\ \E t \in Tasks : /\ SentBy(t, "ensure_session") \in {<<"LOGIN">>, <<"NOOP", "LOGIN">>}
                        /\ tasks[t].result = "Err"
\* ------------------------------------------------------------------ mailbox
\* The drafts folder as the IMAP server keeps it: messages with a UID, a
\* Subject header and the \Deleted flag, and UIDNEXT.  A provider method is one
\* step: it runs under the session guard from its first command to its return.
\* wire is the method's exchanges, each with its outcome: "ok"; "err", the
\* await of the command returned Err and `?` left the method; "refused", the
\* command went out and its response stream carried the failure, which
\* `while let Some(_) = stream.next().await {}` drops.
MaxMsgs == 3       \* provider calls in one behaviour
MaxSubject == 3    \* longest subject, in characters
SearchLen == 2     \* characters of the subject in the SEARCH key (100 in gmail.rs:226)
SubjectChars == {1, 2}
Subjects == UNION {[1..n -> SubjectChars] : n \in 1..MaxSubject}
NoResult == [method |-> "", ok |-> FALSE, uid |-> 0, appended |-> 0, subject |-> <<>>]

\* the folder, UIDNEXT, the fault budget, the exchanges, the method's result
Mailbox0 == [drafts |-> drafts, nextUid |-> nextUid, faults |-> faults, wire |-> <<>>,
             ok |-> FALSE, uid |-> 0, appended |-> 0]
Exchange(mb, cmd, outcome) ==
    [mb EXCEPT !.wire = Append(@, [cmd |-> cmd, outcome |-> outcome]),
               !.faults = IF outcome = "ok" THEN @ ELSE @ + 1]
MayFail(mb) == mb.faults < MaxFaults
\* `?`: the method returns Err
Err(mb, cmd) == IF MayFail(mb) THEN {Exchange(mb, cmd, "err")} ELSE {}
Refusals(mb, cmd) == IF MayFail(mb) THEN {Exchange(mb, cmd, "refused")} ELSE {}

\* &subject[..std::cmp::min(subject.len(), 100)]
search_key(subject) == SubSeq(subject, 1, Min(Len(subject), SearchLen))
\* SEARCH SUBJECT <string>: the header contains the string
Contains(subject, key) ==
    \E n \in 0..(Len(subject) - Len(key)) : SubSeq(subject, n + 1, n + Len(key)) = key
uid_search(mb, key) == {d.uid : d \in {x \in mb.drafts : Contains(x.subject, key)}}
\* A provider that takes the first UID of the SEARCH response: C31 must not
\* survive it.
max_uid_First(uids) == CHOOSE m \in uids : \A x \in uids : m <= x
\* uids.into_iter().max()
max_uid(uids) == MaxOf(uids)

\* APPEND: the server gives the message UIDNEXT and advances it
appended_to(mb, subject) ==
    [mb EXCEPT !.drafts = @ \cup {[uid |-> mb.nextUid, subject |-> subject, deleted |-> FALSE]},
               !.nextUid = @ + 1, !.appended = mb.nextUid]
\* GmailProvider::create_draft after ensure_session; a failed APPEND may have
\* stored the message
mailbox_create_draft(mb0, subject) ==
    LET search(mb) ==
            Err(mb, "UID SEARCH") \cup
            {LET uids == uid_search(mb, search_key(subject))
                 done == Exchange(mb, "UID SEARCH", "ok")
             IN IF uids = {} THEN done
                ELSE [done EXCEPT !.ok = TRUE, !.uid = max_uid(uids)]}
        select(mb) ==
            Err(mb, "SELECT") \cup search(Exchange(mb, "SELECT", "ok"))
    IN Err(mb0, "APPEND") \cup Err(appended_to(mb0, subject), "APPEND")
       \cup select(Exchange(appended_to(mb0, subject), "APPEND", "ok"))

flagged(mb, uid) ==
    [mb EXCEPT !.drafts = {IF d.uid = uid THEN [d EXCEPT !.deleted = TRUE] ELSE d : d \in @}]
expunged(mb) == [mb EXCEPT !.drafts = {d \in @ : ~d.deleted}]
\* GmailProvider::delete_draft after ensure_session
mailbox_delete_draft(mb0, uid) ==
    LET expunge(mb) ==
            Err(mb, "EXPUNGE")
            \cup {[x EXCEPT !.ok = TRUE] : x \in Refusals(mb, "EXPUNGE")
                                              \cup Refusals(expunged(mb), "EXPUNGE")}
            \cup {[Exchange(expunged(mb), "EXPUNGE", "ok") EXCEPT !.ok = TRUE]}
        store(mb) ==
            Err(mb, "UID STORE")
            \cup UNION {expunge(x) : x \in Refusals(mb, "UID STORE")
                                          \cup Refusals(flagged(mb, uid), "UID STORE")}
            \cup expunge(Exchange(flagged(mb, uid), "UID STORE", "ok"))
    IN Err(mb0, "SELECT") \cup store(Exchange(mb0, "SELECT", "ok"))

Returns(mb, method, subject) ==
    /\ ops < MaxMsgs
    /\ ops' = ops + 1
    /\ drafts' = mb.drafts
    /\ nextUid' = mb.nextUid
    /\ faults' = mb.faults
    /\ wire' = mb.wire
    /\ ret' = [method |-> method, ok |-> mb.ok, uid |-> mb.uid,
               appended |-> mb.appended, subject |-> subject]
    /\ UNCHANGED <<chunkSize, objects, chunks, buckets, failed, handlerVars,
                   tasks, session, arg, multipartVars>>

CreateDraft(subject) ==
    \E mb \in mailbox_create_draft(Mailbox0, subject) : Returns(mb, "create_draft", subject)
DeleteDraft(uid) ==
    \E mb \in mailbox_delete_draft(Mailbox0, uid) : Returns(mb, "delete_draft", <<>>)

MailboxInit ==
    /\ chunkSize = 1 /\ objects = {} /\ chunks = {} /\ buckets = {} /\ drafts = {}
    /\ nextUid = 1 /\ faults = 0 /\ ops = 0 /\ failed = FALSE
    /\ wire = <<>>
    /\ ret = NoResult
    /\ arg = 0
    /\ tasks = <<>>
    /\ session = 0
    /\ NoRequests
    /\ NoUploads

MailboxNext ==
    \/ \E subject \in Subjects : CreateDraft(subject)
    \/ \E uid \in 1..MaxMsgs : DeleteDraft(uid)

MailboxSpec == MailboxInit /\ [][MailboxNext]_vars

\* C31: a create_draft that returns Ok returns the UID the server gave to the
\* message this call appended.
C31_CreateDraftUid ==
    ret.method = "create_draft" /\ ret.ok => ret.uid = ret.appended

\* C31 witness: create_draft returned Ok while an older draft with another
\* subject matches the same SEARCH key.
C31_Witness ==
    /\ ret.method = "create_draft" /\ ret.ok
    /\ \E d \in drafts : /\ d.uid < ret.uid
                         /\ d.subject # ret.subject
                         /\ Contains(d.subject, search_key(ret.subject))
\* The commands of the last call are the first ones of seq, in its order.
IssuedInOrder(seq) ==
    /\ Len(wire) <= Len(seq)
    /\ \A n \in 1..Len(wire) : wire[n].cmd = seq[n]
\* The response stream of the last command was read to its end.
Drained == wire # <<>> /\ wire[Len(wire)].outcome \in {"ok", "refused"}

\* C34 (as claimed): delete_draft issues SELECT, UID STORE, EXPUNGE in that
\* order; EXPUNGE is issued only if SELECT and UID STORE succeeded; and the
\* call returns Ok only after EXPUNGE was issued and its responses were read
\* to the end.
C34_DeleteDraftSequence ==
    ret.method = "delete_draft" =>
        /\ IssuedInOrder(<<"SELECT", "UID STORE", "EXPUNGE">>)
        /\ \A n \in 1..Len(wire) : wire[n].cmd = "EXPUNGE" =>
              \A m \in 1..(n - 1) : wire[m].outcome = "ok"
        /\ ret.ok => Len(wire) = 3 /\ Drained

\* ------------------------------------------------- the state delete leaves
\* The rows of o that delete(o.id) re-parents: the branch `usage_count > 0`.
Reparented(o) == {x \in RowsOf(chunks, o.id) : Shared(x)}
OthersUnchanged(r, o) ==
    \A p \in UserObjects \ {o} :
        /\ p \in r.objects
        /\ RowsOf(r.chunks, p.id) = RowsOf(chunks, p.id)

\* C32 (as claimed): after delete(object_id) returned Ok, for any object the
\* service can be asked to delete, there is no object row with that id and no
\* chunk row with that object_id, every row the delete re-parented is still
\* there, free, under the RecyclingObject, and the object rows and chunk rows
\* of every other user object are as they were.
C32_DeletePostState ==
    \A o \in objects : \A r \in DeleteById(o.id) : ~r.err =>
        /\ \A p \in r.objects : p.id # o.id
        /\ RowsOf(r.chunks, o.id) = {}
        /\ \A x \in Reparented(o) : Parked(r, x)
        /\ OthersUnchanged(r, o)
\* ------------------------------------------------- the synthetic chunk_index
\* delete's re-parenting UPDATE taken alone: the RecyclingObject (id 1) gains
\* one free row per step, its chunk_index computed from the clock and the
\* row's draft_uid.  `nanos as i32` keeps the low 32 bits of a u128, so every
\* i32 value is a clock value; the ends of the range and small values are drawn.
MaxFree == 3       \* re-parenting updates in one behaviour
MaxUid == 3        \* draft UIDs 1..MaxUid
ClockValues == {0, 1, 2, 3, -1, 2147483647, I32Min, I32Min + 1}
NotReparented == [called |-> FALSE, index |-> 0, result |-> ""]
FreeRow(id, draft_uid, chunk_index) ==
    [id |-> id, object_id |-> 1, draft_uid |-> draft_uid, chunk_index |-> chunk_index,
     status |-> "free"]

IndexInit ==
    /\ chunkSize = 1 /\ objects = {} /\ chunks = {} /\ buckets = {} /\ drafts = {}
    /\ nextUid = 1 /\ faults = 0 /\ ops = 0 /\ failed = FALSE
    /\ ret = NotReparented
    /\ arg = 0
    /\ NoRequests
    /\ NoTasks
    /\ NoUploads

\* free_record.chunk_index = Set(unique_index); free_record.update(&self.db):
\* i32::abs of i32::MIN panics in a build with overflow checks and returns
\* i32::MIN in one without; the UPDATE is refused when the unique index
\* (object_id, chunk_index) already holds the pair.
Reparent(nanos, draft_uid) ==
    /\ ops < MaxFree
    /\ ops' = ops + 1
    /\ LET s == Xor(nanos, draft_uid)
           idx == unique_index(nanos, draft_uid)
       IN \/ /\ s = I32Min
             /\ ret' = [called |-> TRUE, index |-> idx, result |-> "panic"]
             /\ UNCHANGED chunks
          \/ /\ idx_chunks_object_index(chunks, ops + 2, 1, idx)
             /\ ret' = [called |-> TRUE, index |-> idx, result |-> "Err"]
             /\ UNCHANGED chunks
          \/ /\ ~idx_chunks_object_index(chunks, ops + 2, 1, idx)
             /\ ret' = [called |-> TRUE, index |-> idx, result |-> "Ok"]
             /\ chunks' = chunks \cup {FreeRow(ops + 2, draft_uid, idx)}
    /\ UNCHANGED <<chunkSize, objects, buckets, drafts, nextUid, faults, failed,
                   handlerVars, providerVars, arg, multipartVars>>

IndexNext == \E nanos \in ClockValues, draft_uid \in 1..MaxUid : Reparent(nanos, draft_uid)

IndexSpec == IndexInit /\ [][IndexNext]_vars

\* C33 (as claimed): for every clock value and every draft_uid, the
\* chunk_index a re-parenting assigns is a non-negative 32-bit value that no
\* row of the RecyclingObject has yet, and the UPDATE is not refused.
C33_SyntheticIndex ==
    ret.called =>
        /\ ret.index >= 0 /\ ret.index <= 2147483647
        /\ ret.result = "Ok"
\* ------------------------------------------------------ reads among writers
\* C35 (as claimed, its status part): when the requests in flight are GETs,
\* PUTs and DELETEs of one key and no I/O fault occurs, every GET is answered
\* 200 with the object or 404 NoSuchKey, never 500 InternalError.
C35_ReadAtomicity ==
    /\ faults = 0
    /\ \A r \in Reqs : reqs[r].handler \in {"get_object", "put_object", "delete_object"}
    => \A r \in Reqs :
          reqs[r].handler = "get_object" /\ reqs[r].pc \in {"return", "done"} =>
              reqs[r].status \in {200, 404}
\* ------------------------------------------- free rows and the active rows
\* C36 (as claimed): in every reachable state no free chunk row has the
\* draft_uid of an active chunk row.
C36_FreeActiveDisjoint ==
    \A x \in chunks : \A y \in chunks :
        x.status = "free" /\ y.status = "active" => x.draft_uid # y.draft_uid
\* ------------------------------------------------ the size a GET announces
\* C37 (as claimed): in every reachable state, for every object row at a key
\* of a user bucket, download of its id fails or returns exactly object.size
\* bytes.
C37_DownloadSize ==
    \A o \in UserObjects : \A d \in download(Ctx0, o.id) :
        ~d.err => Len(d.data) = o.size
\* ------------------------------------------------- a part uploaded again
\* The part row of (upload_id, part_number) carries the ETag of the body of
\* the last UploadPart that was answered 200: the insert is the handler's last
\* step.
RowsOfPart(rows, upload_id, part_number) ==
    {x \in rows : x.upload_id = upload_id /\ x.part_number = part_number}
AcknowledgedBody(upload_id, part_number) ==
    CHOOSE b \in PartBodies :
        \A x \in RowsOfPart(multipart_parts, upload_id, part_number) : x.etag = ETag(b)
RECURSIVE AcknowledgedBytes(_, _, _)
AcknowledgedBytes(upload_id, list, n) ==
    IF n > Len(list) THEN <<>>
    ELSE AcknowledgedBody(upload_id, list[n]) \o AcknowledgedBytes(upload_id, list, n + 1)
UploadsPart(q) ==
    /\ ops' = ops + 1
    /\ q = reqs'[1]
    /\ q.handler = "upload_part"
    /\ q.status = 200
Replaced(q) ==
    /\ \E x \in multipart_parts' :
          RowsOfPart(multipart_parts', q.upload_id, q.part_number) = {x}
          /\ x.etag = ETag(q.data) /\ x.size = Len(q.data)
    /\ \E f \in temp_files' :
          FileAt([files |-> temp_files'], TempPath(q.upload_id, q.part_number)) = {f}
          /\ f.data = q.data
Completed(q) ==
    \E up \in multipart_uploads :
        /\ up.id = q.upload_id
        /\ \E o \in objects' :
              /\ o.bucket_id = up.bucket_id /\ o.key = up.key
              /\ o.etag = ETag(AcknowledgedBytes(q.upload_id, q.parts, 1))

\* C38 (as claimed): an upload never has two part rows with one part number;
\* an UploadPart answered 200 leaves exactly one row and one file for its part
\* number, with its bytes; and a CompleteMultipartUpload answered 200 stores
\* the concatenation of the bytes of the last UploadPart answered 200 for each
\* listed part number.
C38_UploadPartOverwrite ==
    [][/\ \A x \in multipart_parts' :
             RowsOfPart(multipart_parts', x.upload_id, x.part_number) = {x}
       /\ \A q \in {reqs'[n] : n \in DOMAIN reqs'} :
             /\ UploadsPart(q) => Replaced(q)
             /\ Completes(q) /\ q.status = 200 => Completed(q)]_vars
\* --------------------------------------------- the end of a multipart upload
Ends(q) ==
    /\ ops' = ops + 1
    /\ q = reqs'[1]
    /\ \/ q.handler = "complete_multipart_upload" /\ q.status = 200
       \/ q.handler = "abort_multipart_upload" /\ q.status = 204
Gone(upload_id) ==
    /\ \A u \in multipart_uploads' : u.id # upload_id
    /\ \A x \in multipart_parts' : x.upload_id # upload_id
\* a request on an uploadId that has no upload record
OnEndedUpload(q) ==
    /\ ops' = ops + 1
    /\ q = reqs'[1]
    /\ q.handler \in {"upload_part", "complete_multipart_upload"}
    /\ \A u \in multipart_uploads : u.id # q.upload_id
WritesObject == objects' # objects \/ chunks' # chunks \/ drafts' # drafts

\* C39 (as claimed): a CompleteMultipartUpload answered 200 and an
\* AbortMultipartUpload answered 204 leave no upload record and no part row of
\* the uploadId; an UploadPart or CompleteMultipartUpload on an uploadId
\* without a record is answered NoSuchUpload (or 500 when an I/O fault strikes
\* it) and changes nothing; and object rows, chunk rows and drafts are written
\* only by a CompleteMultipartUpload, never by an abort.
C39_SessionEnd ==
    [][\A q \in {reqs'[n] : n \in DOMAIN reqs'} :
          /\ Ends(q) => Gone(q.upload_id)
          /\ OnEndedUpload(q) =>
                /\ NothingChanged /\ temp_files' = temp_files
                /\ q.status \in {404, 500}
                /\ faults' = faults => q.status = 404 /\ q.error = "NoSuchUpload"
          /\ WritesObject => q.handler = "complete_multipart_upload"]_vars
====
